---- MODULE Spec2Model ----
(***************************************************************************)
(* A model of the AI-Gencontent dashboard glue code:                       *)
(*   - the Backend Gateway (getGeneratedContent, uploadCSV, pushToShopify) *)
(*   - the n8n webhook proxy routes (trigger-n8n and the file upload proxy) *)
(*   - the log stream consumers (Index, UploadCSVPublic, LogPanel)          *)
(* Each subsystem has its own specification over its own variables; the    *)
(* variables of the other subsystems stay at their initial value.          *)
(***************************************************************************)
EXTENDS Integers, Sequences, FiniteSets, TLC

VARIABLES
    env,          \* process.env, fixed for the life of the process
    gwOp,         \* the gateway operation being invoked
    gwPc,         \* where the invocation stands
    gwFile,       \* the File argument of uploadCSV
    gwRequests,   \* HTTP requests issued by the current invocation
    gwResponse,   \* what fetch settled with
    gwResult,     \* what the invocation resolved / rejected with
    gwConsole,    \* console.error calls of the current invocation
    pxRoute,      \* the proxy route handling the current request
    pxPc,         \* where the route handler stands
    pxRequest,    \* the incoming request
    pxForwarded,  \* requests the handler sent to the webhook
    pxDest,       \* what the webhook fetch settled with
    pxReply,      \* the NextResponse the handler returned
    pxConsole,    \* console.error calls of the current request
    lsView,       \* the mounted log consumer: Index, UploadCSVPublic or LogPanel
    lsMounted,    \* whether the component is mounted
    esState,      \* readyState of the mount's EventSource
    isConnected,  \* the isConnected state of the Shopify views
    logs,         \* the logs state (the log buffer)
    lsConsole,    \* the latest console.error of the mount's handlers
    lsLast,       \* history: the event handled by the latest step
    lsErrored,    \* history: an error event was delivered during this mount
    esReleases,   \* history: times the mount's EventSource let go of its stream
    lsAdmitted,   \* history: what onmessage appended since the buffer was last empty
    page,         \* the mounted page: Index, UploadCSVPublic, UploadPage or none
    wfFile,       \* the file state (Index, UploadCSVPublic, FileUpload)
    navigation,   \* useNavigation() of the Shopify views
    actionData,   \* useActionData() of the Shopify views
    persistentUploadData,  \* the stored preview of the Shopify views
    currentPage,  \* the page of the preview table
    isProcessing, \* the isProcessing state of the Shopify views
    adData,       \* UploadPage: the data state (the preview and its file)
    isPushing,    \* UploadPage: the isPushing state
    showLogs,     \* UploadPage: the showLogs state
    isUploading,  \* FileUpload: the isUploading state
    fuStatus,     \* FileUpload: the status state
    fuMessage,    \* FileUpload: the message state
    uploadRequest,  \* FileUpload: the upload request in flight
    pushRequests, \* UploadPage: the requests to /api/trigger-n8n in flight
    pushTimers,   \* UploadPage: pending setTimeout callbacks
    wfLast,       \* history: the workflow event handled by the latest step
    wfOverlap,    \* history: in this view, a submission met one of its own action type in flight
    plMounted,    \* PriceLogsPage: whether the page is mounted
    plLogs,       \* PriceLogsPage: the logs state (the rows shown)
    plTotal,      \* PriceLogsPage: the total state
    plLoading,    \* PriceLogsPage: the loading state
    plPage,       \* PriceLogsPage: the page state
    plStatusFilter,  \* PriceLogsPage: the statusFilter state
    plFetches,    \* PriceLogsPage: the fetchLogs calls awaiting their response, oldest first
    plLast,       \* history: the price-logs event handled by the latest step
    raView,       \* route action: the route the request in hand was posted to
    raPc,         \* route action: where the action invocation stands
    raForm,       \* route action: what request.formData() yields for the request
    raAuth,       \* route action: whether authenticate.admin has succeeded
    raCalls,      \* route action: the gateway calls made, in order
    raOutcome,    \* route action: how the gateway call ended
    raResult      \* route action: what the action returned

gwVars == <<env, gwOp, gwPc, gwFile, gwRequests, gwResponse, gwResult, gwConsole>>
pxVars == <<pxRoute, pxPc, pxRequest, pxForwarded, pxDest, pxReply, pxConsole>>
lsVars ==
    <<lsView, lsMounted, esState, isConnected, logs, lsConsole, lsLast, lsErrored,
      esReleases, lsAdmitted>>

wfVars ==
    <<page, wfFile, navigation, actionData, persistentUploadData, currentPage,
      isProcessing, adData, isPushing, showLogs, isUploading, fuStatus, fuMessage,
      uploadRequest, pushRequests, pushTimers, wfLast, wfOverlap>>

plVars ==
    <<plMounted, plLogs, plTotal, plLoading, plPage, plStatusFilter, plFetches, plLast>>
raVars == <<raView, raPc, raForm, raAuth, raCalls, raOutcome, raResult>>

(***************************************************************************)
(* JavaScript values.  Every value is a tagged record, so that values of   *)
(* different JavaScript types can be compared.                             *)
(***************************************************************************)
Undefined == [t |-> "undefined"]
JNull == [t |-> "null"]
JStr(s) == [t |-> "str", s |-> s]
JNum(n) == [t |-> "num", n |-> n]
JArr(a) == [t |-> "arr", a |-> a]
JObj(o) == [t |-> "obj", o |-> o]
JBool(b) == [t |-> "bool", b |-> b]
EmptyObj == JObj(<<>>)

\* JavaScript truthiness, as used by `!x` and `a || b`.
Truthy(v) ==
    CASE v.t = "undefined" -> FALSE
      [] v.t = "null" -> FALSE
      [] v.t = "str" -> v.s # ""
      [] v.t = "num" -> v.n # 0
      [] v.t = "bool" -> v.b
      [] OTHER -> TRUE

\* a || b
Or(a, b) == IF Truthy(a) THEN a ELSE b

\* Reading a property off null or undefined throws a TypeError.
PropThrows(v) == v.t \in {"null", "undefined"}

\* v[k] for a value that is not null / undefined.
Prop(v, k) == IF v.t = "obj" /\ k \in DOMAIN v.o THEN v.o[k] ELSE Undefined

\* String(v): what `new Error(v).message` and template literals hold.
JsString(v) ==
    CASE v.t = "str" -> v.s
      [] v.t = "num" -> ToString(v.n)
      [] v.t = "undefined" -> "undefined"
      [] v.t = "null" -> "null"
      [] v.t = "bool" -> IF v.b THEN "true" ELSE "false"
      [] v.t = "obj" -> "[object Object]"
      [] v.t = "arr" ->
            IF v.a = <<>> THEN ""
            ELSE IF v.a[1].t = "obj" THEN "[object Object]" ELSE "[array]"
      [] OTHER -> "?"

(***************************************************************************)
(* HTTP responses.  A body is its raw text together with what JSON.parse   *)
(* makes of it (Unparsable when it throws).                                *)
(***************************************************************************)
Unparsable == [t |-> "unparsable"]
Body(text, json) == [text |-> text, json |-> json]

TransportFailure == [kind |-> "failure"]
Response(status, statusText, body) ==
    [kind |-> "response", status |-> status, statusText |-> statusText, body |-> body]
NoResponse == [kind |-> "none"]

\* response.ok
Ok(r) == r.status >= 200 /\ r.status <= 299

\* Messages of errors raised by the runtime, not by this repository.
FetchFailedMessage == "fetch failed"
JsonSyntaxMessage == "Unexpected token in JSON"
NullPropMessage == "Cannot read properties of null (reading 'detail')"

(***************************************************************************)
(* The backend's possible answers.                                         *)
(***************************************************************************)
ErrorBodies ==
    { Body("<html>Bad Gateway</html>", Unparsable),
      Body("null", JNull),
      Body("{}", EmptyObj),
      Body("{detail:Invalid CSV}", JObj([detail |-> JStr("Invalid CSV")])),
      Body("{detail:}", JObj([detail |-> JStr("")])),
      Body("{detail:[{msg}]}",
           JObj([detail |-> JArr(<<JObj([msg |-> JStr("field required")])>>)])) }

UploadBodies ==
    { Body("", Unparsable),
      Body("null", JNull),
      Body("{}", EmptyObj),
      Body("{total_rows:3,columns}",
           JObj([status |-> JStr("success"), total_rows |-> JNum(3),
                 columns |-> JArr(<<JStr("title"), JStr("price")>>)])),
      Body("{total_rows:0,column_names}",
           JObj([status |-> JStr("success"), total_rows |-> JNum(0),
                 column_names |-> JArr(<<>>)])),
      Body("{total_rows:-1,columns}",
           JObj([status |-> JStr("success"), total_rows |-> JNum(-1),
                 columns |-> JArr(<<>>)])),
      Body("{total_rows:3}",
           JObj([status |-> JStr("success"), total_rows |-> JNum(3)])) }

\* A status line's reason phrase; HTTP/2 carries none, and statusText is "".
ReasonPhrase(status) ==
    CASE status = 200 -> "OK"
      [] status = 201 -> "Created"
      [] status = 400 -> "Bad Request"
      [] status = 422 -> "Unprocessable Entity"
      [] status = 500 -> "Internal Server Error"
      [] OTHER -> ""

StatusTexts(status) == {ReasonPhrase(status), ""}

ResponsesWith(statuses, bodies) ==
    UNION { { Response(s, st, b) : st \in StatusTexts(s), b \in bodies } :
            s \in statuses }

BackendResponses ==
    ResponsesWith({200, 201}, UploadBodies) \cup ResponsesWith({400, 422, 500}, ErrorBodies)

Files == {"products.csv", "empty.csv"}

(***************************************************************************)
(* process.env                                                             *)
(***************************************************************************)
EnvNames ==
    {"PYTHON_BACKEND_URL", "SHOPIFY_STORE_URL", "SHOPIFY_SHOP_URL",
     "SHOPIFY_ACCESS_TOKEN", "NEXT_PUBLIC_N8N_WEBHOOK_URL"}

EnvValues(name) ==
    {Undefined, JStr(""), JStr("<" \o name \o ">")}

GatewayEnvs ==
    { e \in [EnvNames -> UNION {EnvValues(n) : n \in EnvNames}] :
        /\ \A n \in EnvNames : e[n] \in EnvValues(n)
        /\ e["NEXT_PUBLIC_N8N_WEBHOOK_URL"] = Undefined }

(***************************************************************************)
(* Backend Gateway                                                         *)
(***************************************************************************)
NoError == [t |-> "noerror"]
NoResult == [kind |-> "none"]
Resolved(v) == [kind |-> "resolved", value |-> v]
Rejected(m) == [kind |-> "rejected", message |-> m]

BackendUrlMessage == "PYTHON_BACKEND_URL is not set"
ShopUrlMessage == "SHOPIFY_STORE_URL (or SHOPIFY_SHOP_URL) is not set in .env"
AccessTokenMessage == "SHOPIFY_ACCESS_TOKEN is not set in .env"

\* getGeneratedContent / uploadCSV: `if (!backendUrl) throw ...`
BackendConfigError(e) ==
    IF ~Truthy(e["PYTHON_BACKEND_URL"]) THEN JStr(BackendUrlMessage) ELSE NoError

\* pushToShopify: const shopUrl = SHOPIFY_STORE_URL || SHOPIFY_SHOP_URL
ShopUrl(e) == Or(e["SHOPIFY_STORE_URL"], e["SHOPIFY_SHOP_URL"])

\* A plausible slip: the shop URL is not validated.
PushConfigErrorNoShopCheck(e) ==
    IF ~Truthy(e["PYTHON_BACKEND_URL"]) THEN JStr(BackendUrlMessage)
    ELSE IF ~Truthy(e["SHOPIFY_ACCESS_TOKEN"]) THEN JStr(AccessTokenMessage)
    ELSE NoError

\* pushToShopify: the three `if (!x) throw new Error(...)` lines, in order.
PushConfigError(e) ==
    IF ~Truthy(e["PYTHON_BACKEND_URL"]) THEN JStr(BackendUrlMessage)
    ELSE IF ~Truthy(ShopUrl(e)) THEN JStr(ShopUrlMessage)
    ELSE IF ~Truthy(e["SHOPIFY_ACCESS_TOKEN"]) THEN JStr(AccessTokenMessage)
    ELSE NoError

ConfigError(op, e) ==
    IF op = "pushToShopify" THEN PushConfigError(e) ELSE BackendConfigError(e)

\* The request each operation hands to fetch.
RequestOf(op, e, file) ==
    CASE op = "getGeneratedContent" ->
            [url |-> JsString(e["PYTHON_BACKEND_URL"]) \o "/api/content", method |-> "GET",
             headers |-> <<>>, body |-> <<>>]
      [] op = "uploadCSV" ->
            [url |-> JsString(e["PYTHON_BACKEND_URL"]) \o "/upload", method |-> "POST",
             headers |-> <<>>, body |-> <<<<"file", file>>>>]
      [] op = "pushToShopify" ->
            [url |-> JsString(e["PYTHON_BACKEND_URL"]) \o "/push-to-shopify", method |-> "POST",
             headers |-> <<<<"Content-Type", "application/json">>>>,
             body |-> [shop_url |-> ShopUrl(e),
                       access_token |-> e["SHOPIFY_ACCESS_TOKEN"]]]

FailedPrefix(op) == IF op = "uploadCSV" THEN "Upload failed: " ELSE "Push failed: "

\* await response.json().catch(() => ({ detail: response.statusText }))
ErrorData(r) ==
    IF r.body.json = Unparsable THEN JObj([detail |-> JStr(r.statusText)])
    ELSE r.body.json

\* A plausible slip: the body's detail is ignored.
ErrorMessageStatusOnly(op, r) == FailedPrefix(op) \o r.statusText

\* new Error(errorData.detail || `Upload failed: ${response.statusText}`).message,
\* or the TypeError of reading `.detail` off null.
ErrorMessage(op, r) ==
    IF PropThrows(ErrorData(r)) THEN NullPropMessage
    ELSE JsString(Or(Prop(ErrorData(r), "detail"),
                     JStr(FailedPrefix(op) \o r.statusText)))

GwSettled == gwPc \in {"idle", "resolved", "rejected"}

\* An invocation: the configuration checks, then the one fetch.
GwInvoke(op, file) ==
    /\ GwSettled
    /\ gwOp' = op
    /\ gwFile' = file
    /\ gwResponse' = NoResponse
    /\ gwConsole' = <<>>
    /\ IF ConfigError(op, env) # NoError
       THEN /\ gwPc' = "rejected"
            /\ gwResult' = Rejected(ConfigError(op, env).s)
            /\ gwRequests' = <<>>
       ELSE /\ gwPc' = "fetching"
            /\ gwResult' = NoResult
            /\ gwRequests' = <<RequestOf(op, env, file)>>
    /\ UNCHANGED env

GetGeneratedContent == GwInvoke("getGeneratedContent", "")

UploadCSV == \E file \in Files : GwInvoke("uploadCSV", file)

PushToShopify == GwInvoke("pushToShopify", "")

ConsoleTag(op) ==
    CASE op = "getGeneratedContent" -> "Failed to fetch from Python backend:"
      [] op = "uploadCSV" -> "Failed to upload CSV:"
      [] OTHER -> "Failed to push to Shopify:"

\* catch (error) { console.error(...); throw error; }
GwRethrow(message) ==
    /\ gwConsole' = Append(gwConsole, ConsoleTag(gwOp))
    /\ gwResult' = Rejected(message)
    /\ gwPc' = "rejected"

\* A plausible slip: a failed fetch is tried once more.
GwTransportFailureRetry ==
    /\ gwPc = "fetching"
    /\ gwResponse' = TransportFailure
    /\ IF Len(gwRequests) < 2
       THEN /\ gwRequests' = Append(gwRequests, gwRequests[1])
            /\ UNCHANGED <<gwPc, gwResult, gwConsole>>
       ELSE /\ GwRethrow(FetchFailedMessage)
            /\ UNCHANGED gwRequests
    /\ UNCHANGED <<env, gwOp, gwFile>>

\* fetch rejects: the catch block logs and rethrows.
GwTransportFailure ==
    /\ gwPc = "fetching"
    /\ gwResponse' = TransportFailure
    /\ GwRethrow(FetchFailedMessage)
    /\ UNCHANGED <<env, gwOp, gwFile, gwRequests>>

\* fetch resolves with a response.
GwResponseArrives ==
    /\ gwPc = "fetching"
    /\ \E r \in BackendResponses :
        /\ gwResponse' = r
        /\ IF ~Ok(r)
           THEN IF gwOp = "getGeneratedContent"
                THEN GwRethrow("Python backend error: " \o r.statusText)
                ELSE /\ gwPc' = "readingErrorBody"
                     /\ UNCHANGED <<gwResult, gwConsole>>
           ELSE /\ gwPc' = "readingBody"
                /\ UNCHANGED <<gwResult, gwConsole>>
    /\ UNCHANGED <<env, gwOp, gwFile, gwRequests>>

\* if (!response.ok) { const errorData = await ...; throw new Error(...) }
GwReadErrorBody ==
    /\ gwPc = "readingErrorBody"
    /\ GwRethrow(ErrorMessage(gwOp, gwResponse))
    /\ UNCHANGED <<env, gwOp, gwFile, gwRequests, gwResponse>>

\* return await response.json();
GwReadBody ==
    /\ gwPc = "readingBody"
    /\ IF gwResponse.body.json = Unparsable
       THEN GwRethrow(JsonSyntaxMessage)
       ELSE /\ gwResult' = Resolved(gwResponse.body.json)
            /\ gwPc' = "resolved"
            /\ UNCHANGED gwConsole
    /\ UNCHANGED <<env, gwOp, gwFile, gwRequests, gwResponse>>

(***************************************************************************)
(* Webhook proxy routes                                                    *)
(***************************************************************************)
\* String.prototype.includes
Includes(s, sub) ==
    \E i \in 1..(Len(s) - Len(sub) + 1) : SubSeq(s, i, i + Len(sub) - 1) = sub

JFile(name) == [t |-> "file", name |-> name]
Entry(key, value) == <<key, value>>

\* What request.formData() and request.json() make of an incoming request:
\* the form entries in order or NotForm when formData() throws, the JSON value
\* or Unparsable when json() throws.
NotForm == [t |-> "notform"]
Form(entries) == [t |-> "form", entries |-> entries]
Incoming(contentType, form, json) ==
    [contentType |-> contentType, form |-> form, json |-> json]

Forms ==
    { <<>>,
      <<Entry("file", JFile("products.csv"))>>,
      <<Entry("note", JStr("n1")), Entry("file", JFile("products.csv")),
        Entry("tag", JStr("t1"))>>,
      <<Entry("file", JFile("a.csv")), Entry("file", JFile("b.csv")),
        Entry("tag", JStr("t1")), Entry("tag", JStr("t2"))>>,
      <<Entry("note", JStr("n1"))>>,
      <<Entry("file", JStr("")), Entry("note", JStr("n1"))>>,
      <<Entry("file", JStr("inline text"))>> }

IncomingRequests ==
    { Incoming(JStr("multipart/form-data; boundary=x"), Form(f), Unparsable) : f \in Forms }
    \cup
    { Incoming(JStr("application/x-www-form-urlencoded"), Form(f), Unparsable) :
        f \in {<<Entry("note", JStr("n1"))>>} }
    \cup
    { Incoming(ct, NotForm, j) :
        ct \in {JNull, JStr("application/json"), JStr("text/plain")},
        j \in {JObj([products |-> JNum(2)]), JNull, Unparsable} }
    \cup
    { Incoming(JStr("multipart/form-data; boundary=x"), NotForm, Unparsable),
      Incoming(JStr("Multipart/Form-Data; boundary=x"),
               Form(<<Entry("file", JFile("products.csv"))>>), Unparsable) }

DestBodies ==
    { Body("", Unparsable),
      Body("Workflow could not be started", Unparsable),
      Body("{message:Workflow was started}",
           JObj([message |-> JStr("Workflow was started")])),
      Body("{message:Error in workflow}",
           JObj([message |-> JStr("Error in workflow")])) }

DestStatuses == {200, 204, 304, 400, 404, 500}

DestResponses ==
    { Response(s, "", b) : s \in DestStatuses, b \in DestBodies }

ProxyEnvs ==
    { e \in [EnvNames -> UNION {EnvValues(n) : n \in EnvNames}] :
        /\ e["NEXT_PUBLIC_N8N_WEBHOOK_URL"] \in EnvValues("NEXT_PUBLIC_N8N_WEBHOOK_URL")
        /\ \A n \in EnvNames \ {"NEXT_PUBLIC_N8N_WEBHOOK_URL"} : e[n] = Undefined }

NoReply == [status |-> 0, body |-> Undefined]
Reply(status, body) == [status |-> status, body |-> body]
ErrorPayload(message) == JObj([error |-> JStr(message)])

ConfigErrorText == "N8n webhook URL not configured."
NoFileText == "No file received."
FormDataFailedMessage == "Failed to parse body as FormData."
NullBodyStatusMessage(status) ==
    "Response constructor: Invalid response status code " \o ToString(status)

\* Statuses whose response may not carry a body (Response.json throws on them).
NullBodyStatuses == {101, 103, 204, 205, 304}

\* JSON.stringify(value): the serialized text, kept as the value it encodes.
JsonStringify(v) == [t |-> "jsontext", of |-> v]
FormDataBody(entries) == [t |-> "formdata", entries |-> entries]

\* A plausible slip: only an absent variable counts as unconfigured.
WebhookUrlMissingAbsentOnly(e) == e["NEXT_PUBLIC_N8N_WEBHOOK_URL"] = Undefined

\* if (!n8nUrl)
WebhookUrlMissing(e) == ~Truthy(e["NEXT_PUBLIC_N8N_WEBHOOK_URL"])

\* request.headers.get('content-type') || ''
ContentTypeOf(req) == JsString(Or(req.contentType, JStr("")))

\* contentType.includes('multipart/form-data')
IsMultipart(req) == Includes(ContentTypeOf(req), "multipart/form-data")

\* A plausible slip: the JSON content type is set for every forwarded request.
TriggerHeadersAlwaysJson(req) == <<Entry("Content-Type", "application/json")>>

\* let headers = {}; ... headers['Content-Type'] = 'application/json' (JSON only)
TriggerHeaders(req) ==
    IF IsMultipart(req) THEN <<>> ELSE <<Entry("Content-Type", "application/json")>>

\* payload = formData, or JSON.stringify(await request.json())
TriggerPayload(req) ==
    IF IsMultipart(req) THEN FormDataBody(req.form.entries) ELSE JsonStringify(req.json)

\* Whether reading the body (formData() or json()) throws in trigger-n8n.
TriggerBodyThrows(req) ==
    IF IsMultipart(req) THEN req.form = NotForm ELSE req.json = Unparsable

TriggerBodyMessage(req) ==
    IF IsMultipart(req) THEN FormDataFailedMessage ELSE JsonSyntaxMessage

\* formData.get('file'): the first value under the key, else null.
FormGet(form, key) ==
    IF \E i \in 1..Len(form) : form[i][1] = key
    THEN form[CHOOSE i \in 1..Len(form) :
                 /\ form[i][1] = key
                 /\ \A j \in 1..(i - 1) : form[j][1] # key][2]
    ELSE JNull

\* The entries of a form whose key is not `key`, in order.
RECURSIVE OtherEntries(_, _)
OtherEntries(form, key) ==
    IF form = <<>> THEN <<>>
    ELSE IF Head(form)[1] = key THEN OtherEntries(Tail(form), key)
    ELSE <<Head(form)>> \o OtherEntries(Tail(form), key)

\* A plausible slip: only the file is forwarded.
UploadPayloadFileOnly(form) == FormDataBody(<<Entry("file", FormGet(form, "file"))>>)

\* n8nFormData.append('file', file); formData.forEach(... if (key !== 'file') ...)
UploadPayload(form) ==
    FormDataBody(<<Entry("file", FormGet(form, "file"))>> \o OtherEntries(form, "file"))

\* NextResponse.json(body, { status }) throws for a status that allows no body.
ReplyThrows(status) == status \in NullBodyStatuses




\* POST /api/trigger-n8n, up to the fetch.
PxTriggerN8n ==
    \E req \in IncomingRequests :
        /\ pxPc \in {"idle", "done"}
        /\ pxRoute' = "trigger-n8n"
        /\ pxRequest' = req
        /\ pxDest' = NoResponse
        /\ IF WebhookUrlMissing(env)
           THEN /\ pxReply' = Reply(500, ErrorPayload(ConfigErrorText))
                /\ pxPc' = "done"
                /\ pxForwarded' = <<>>
                /\ pxConsole' = <<>>
           ELSE IF TriggerBodyThrows(req)
           THEN /\ pxReply' = Reply(500, ErrorPayload(TriggerBodyMessage(req)))
                /\ pxPc' = "done"
                /\ pxForwarded' = <<>>
                /\ pxConsole' = <<"N8n Proxy Error:">>
           ELSE /\ pxReply' = NoReply
                /\ pxPc' = "forwarding"
                /\ pxForwarded' =
                      <<[url |-> env["NEXT_PUBLIC_N8N_WEBHOOK_URL"], method |-> "POST",
                         headers |-> TriggerHeaders(req), body |-> TriggerPayload(req)]>>
                /\ pxConsole' = <<>>
        /\ UNCHANGED env

\* POST of the file upload proxy, up to the fetch.
PxUpload ==
    \E req \in IncomingRequests :
        /\ pxPc \in {"idle", "done"}
        /\ pxRoute' = "upload"
        /\ pxRequest' = req
        /\ pxDest' = NoResponse
        /\ IF req.form = NotForm
           THEN /\ pxReply' = Reply(500, ErrorPayload(FormDataFailedMessage))
                /\ pxPc' = "done"
                /\ pxForwarded' = <<>>
                /\ pxConsole' = <<"Upload proxy error:">>
           ELSE IF ~Truthy(FormGet(req.form.entries, "file"))
           THEN /\ pxReply' = Reply(400, ErrorPayload(NoFileText))
                /\ pxPc' = "done"
                /\ pxForwarded' = <<>>
                /\ pxConsole' = <<>>
           ELSE IF WebhookUrlMissing(env)
           THEN /\ pxReply' = Reply(500, ErrorPayload(ConfigErrorText))
                /\ pxPc' = "done"
                /\ pxForwarded' = <<>>
                /\ pxConsole' = <<>>
           ELSE /\ pxReply' = NoReply
                /\ pxPc' = "forwarding"
                /\ pxForwarded' =
                      <<[url |-> env["NEXT_PUBLIC_N8N_WEBHOOK_URL"], method |-> "POST",
                         headers |-> <<>>, body |-> UploadPayload(req.form.entries)]>>
                /\ pxConsole' = <<>>
        /\ UNCHANGED env

CatchTag(route) ==
    IF route = "trigger-n8n" THEN "N8n Proxy Error:" ELSE "Upload proxy error:"

\* The webhook fetch rejects: the catch block answers 500.
PxDestFails ==
    /\ pxPc = "forwarding"
    /\ pxDest' = TransportFailure
    /\ pxConsole' = Append(pxConsole, CatchTag(pxRoute))
    /\ pxReply' = Reply(500, ErrorPayload(FetchFailedMessage))
    /\ pxPc' = "done"
    /\ UNCHANGED <<env, pxRoute, pxRequest, pxForwarded>>

\* The console.error of the upload proxy's non-2xx branch.
DestErrorLog(route) == IF route = "upload" THEN <<"N8n error:">> ELSE <<>>

\* A plausible slip: every webhook error is answered with a fixed 502.
DestErrorStatusFixed(r) == 502

\* { status: response.status }
DestErrorStatus(r) == r.status

\* `N8n responded with ${response.status}: ${errorText}`
DestErrorText(r) ==
    "N8n responded with " \o ToString(r.status) \o ": " \o r.body.text

\* await response.json().catch(() => ({ success: true }))
DestData(r) ==
    IF r.body.json = Unparsable THEN JObj([success |-> JBool(TRUE)]) ELSE r.body.json

\* The webhook answers: the rest of the handler.
PxDestResponds ==
    /\ pxPc = "forwarding"
    /\ \E r \in DestResponses :
        /\ pxDest' = r
        /\ IF ~Ok(r)
           THEN IF ReplyThrows(DestErrorStatus(r))
                THEN /\ pxReply' = Reply(500, ErrorPayload(NullBodyStatusMessage(r.status)))
                     /\ pxConsole' = pxConsole \o DestErrorLog(pxRoute)
                                         \o <<CatchTag(pxRoute)>>
                ELSE /\ pxReply' = Reply(DestErrorStatus(r), ErrorPayload(DestErrorText(r)))
                     /\ pxConsole' = pxConsole \o DestErrorLog(pxRoute)
           ELSE /\ pxReply' = Reply(200, DestData(r))
                /\ UNCHANGED pxConsole
    /\ pxPc' = "done"
    /\ UNCHANGED <<env, pxRoute, pxRequest, pxForwarded>>

(***************************************************************************)
(* Log stream consumers                                                    *)
(***************************************************************************)
MaxLogs == 4

LogViews == {"Index", "UploadCSVPublic", "LogPanel"}
ShopifyViews == {"Index", "UploadCSVPublic"}

\* The payloads (event.data) the stream delivers.
SuccessPayload ==
    "{\"message\": \"Success: synced\", \"level\": \"success\", \"timestamp\": 1}"
InfoPayload ==
    "{\"message\": \"Processing row 1\", \"level\": \"info\", \"timestamp\": 2}"
QuotedErrorPayload ==
    "'{\"message\": \"Error: bad row\", \"level\": \"error\", \"timestamp\": 3}'"
QuotedSuccessPayload == "'{\"message\": \"Success: synced\"}'"
PythonDictPayload == "{'message': 'Success: synced'}"
NumericMessagePayload == "{\"message\": 42, \"timestamp\": 4}"

Payloads ==
    { SuccessPayload, InfoPayload, QuotedErrorPayload, QuotedSuccessPayload,
      PythonDictPayload, NumericMessagePayload, "{}", "null", "ping", "", " " }

\* JSON.parse(text): the parsed value, or Unparsable when it throws.  JSON
\* strings are double-quoted: a text in single quotes, with or without braces
\* around it, is a syntax error.
JsonParse(text) ==
    CASE text = SuccessPayload ->
            JObj([message |-> JStr("Success: synced"), level |-> JStr("success"),
                  timestamp |-> JNum(1)])
      [] text = InfoPayload ->
            JObj([message |-> JStr("Processing row 1"), level |-> JStr("info"),
                  timestamp |-> JNum(2)])
      [] text = SubSeq(QuotedErrorPayload, 2, Len(QuotedErrorPayload) - 1) ->
            JObj([message |-> JStr("Error: bad row"), level |-> JStr("error"),
                  timestamp |-> JNum(3)])
      [] text = SubSeq(QuotedSuccessPayload, 2, Len(QuotedSuccessPayload) - 1) ->
            JObj([message |-> JStr("Success: synced")])
      [] text = NumericMessagePayload ->
            JObj([message |-> JNum(42), timestamp |-> JNum(4)])
      [] text = "{}" -> EmptyObj
      [] text = "null" -> JNull
      [] OTHER -> Unparsable

\* String.prototype.trim (spaces only)
RECURSIVE Trim(_)
Trim(text) ==
    IF text = "" THEN ""
    ELSE IF Head(text) = " " THEN Trim(Tail(text))
    ELSE IF SubSeq(text, Len(text), Len(text)) = " "
    THEN Trim(SubSeq(text, 1, Len(text) - 1))
    ELSE text

StartsWith(text, c) == Len(text) >= Len(c) /\ SubSeq(text, 1, Len(c)) = c
EndsWith(text, c) ==
    Len(text) >= Len(c) /\ SubSeq(text, Len(text) - Len(c) + 1, Len(text)) = c

\* LogPanel: strip one layer of enclosing single quotes.
StripQuotesNever(text) == text

StripQuotes(text) ==
    IF StartsWith(text, "'") /\ EndsWith(text, "'")
    THEN SubSeq(text, 2, Len(text) - 1)
    ELSE text

\* The relevance keywords; (check) and (cross) stand for the two glyphs.
Keywords == {"Success", "Failed", "Error", "(check)", "(cross)"}

\* LogPanel: shouldShow
ShouldShowAlways(message) == TRUE

ShouldShow(message) == \E k \in Keywords : Includes(message, k)

\* new Date(timestamp * 1000).toLocaleTimeString()
TimeString(ts) ==
    CASE ts.t = "num" -> "time(" \o ToString(ts.n) \o ")"
      [] ts.t = "null" -> "time(0)"
      [] OTHER -> "Invalid Date"

\* Index / UploadCSVPublic: what onmessage does with event.data.
\* "throw" stands for the catch branch (console.error, nothing appended).
ShopifyOnMessage(data) ==
    LET parsed == JsonParse(data)
    IN  IF parsed = Unparsable \/ PropThrows(parsed) THEN [do |-> "throw"]
        ELSE [do |-> "append",
              entry |-> JStr("[" \o TimeString(Prop(parsed, "timestamp")) \o "] "
                             \o JsString(Prop(parsed, "message")))]

\* LogPanel: what onmessage does with event.data.
LogPanelOnMessageUnfiltered(data) ==
    IF data = "" \/ Trim(data) = "" THEN [do |-> "return"]
    ELSE LET parsed == JsonParse(StripQuotes(data))
         IN  IF parsed = Unparsable \/ PropThrows(parsed) THEN [do |-> "throw"]
             ELSE IF Prop(parsed, "message").t # "str" THEN [do |-> "throw"]
             ELSE [do |-> "append", entry |-> parsed]

LogPanelOnMessage(data) ==
    IF data = "" \/ Trim(data) = "" THEN [do |-> "return"]
    ELSE LET parsed == JsonParse(StripQuotes(data))
         IN  IF parsed = Unparsable \/ PropThrows(parsed) THEN [do |-> "throw"]
             ELSE IF Prop(parsed, "message").t # "str" THEN [do |-> "throw"]
             ELSE IF ShouldShow(Prop(parsed, "message").s)
                  THEN [do |-> "append", entry |-> parsed]
                  ELSE [do |-> "skip"]

OnMessage(view, data) ==
    IF view = "LogPanel" THEN LogPanelOnMessage(data) ELSE ShopifyOnMessage(data)

ParseErrorTag(view) ==
    IF view = "LogPanel" THEN "Error parsing log:" ELSE "Log parse error"

\* LogPanel.onopen appends this entry; its timestamp is Date.now().
ConnectedEntry ==
    JObj([message |-> JStr("Connected to log stream..."), level |-> JStr("system"),
          timestamp |-> [t |-> "now"]])

Event(kind, data) == [kind |-> kind, data |-> data]

\* useNavigation(): the router's navigation, idle unless a submission is on.
Navigation(state, formData) == [state |-> state, formData |-> formData]
IdleNavigation == Navigation("idle", Undefined)

\* No request in flight.
NoRequest == [t |-> "norequest"]

\* setLogs(prev => [...prev, entry])
PrependEntry(buffer, entry) == <<entry>> \o buffer

AppendEntry(buffer, entry) == Append(buffer, entry)

\* eventSource.close(): readyState becomes CLOSED, and the stream is let go of
\* unless the EventSource was CLOSED already.
ReleasesAfterCloseAlways(state, releases) == releases + 1

ReleasesAfterClose(state, releases) ==
    IF state = "closed" THEN releases ELSE releases + 1

\* The component mounts: fresh state, and the effect opens the EventSource.
LsMountOf(view) ==
    /\ ~lsMounted
    /\ lsView' = view
    /\ lsMounted' = TRUE
    /\ esState' = "connecting"
    /\ isConnected' = FALSE
    /\ logs' = <<>>
    /\ lsConsole' = ""
    /\ lsLast' = Event("mount", "")
    /\ lsErrored' = FALSE
    /\ esReleases' = 0
    /\ lsAdmitted' = <<>>

LsMount == \E view \in LogViews : LsMountOf(view)

\* The stream opens (also after the browser reconnected): onopen.
EsOpen ==
    /\ lsMounted
    /\ esState = "connecting"
    /\ lsView = "LogPanel" => Len(logs) < MaxLogs
    /\ esState' = "open"
    /\ IF lsView = "LogPanel"
       THEN /\ logs' = AppendEntry(logs, ConnectedEntry)
            /\ lsConsole' = "Connected to Log Stream"
            /\ UNCHANGED isConnected
       ELSE /\ isConnected' = TRUE
            /\ UNCHANGED <<logs, lsConsole>>
    /\ lsLast' = Event("open", "")
    /\ UNCHANGED <<lsView, lsMounted, lsErrored, esReleases, lsAdmitted>>

\* A message event: onmessage.
EsMessageFrom(payloads, maxLogs) ==
    /\ lsMounted
    /\ esState = "open"
    /\ Len(logs) < maxLogs
    /\ \E payload \in payloads :
        /\ lsLast' = Event("message", payload)
        /\ LET r == OnMessage(lsView, payload)
           IN  /\ logs' = IF r.do = "append" THEN AppendEntry(logs, r.entry) ELSE logs
               /\ lsAdmitted' = IF r.do = "append" THEN Append(lsAdmitted, r.entry)
                                 ELSE lsAdmitted
               /\ lsConsole' = IF r.do = "throw" THEN ParseErrorTag(lsView) ELSE lsConsole
    /\ UNCHANGED <<lsView, lsMounted, esState, isConnected, lsErrored, esReleases>>

EsMessage == EsMessageFrom(Payloads, MaxLogs)

\* What the handler of the error event leaves of the connection: the Shopify
\* views call eventSource.close(); LogPanel only logs, so the EventSource stays
\* as the browser left it.
EsAfterError(view, browserState) ==
    IF view \in ShopifyViews THEN "closed" ELSE browserState

\* An error event.  The browser has either begun to reconnect (readyState
\* CONNECTING) or given up (CLOSED) when it dispatches the event: onerror.
EsError ==
    /\ lsMounted
    /\ esState \in {"connecting", "open"}
    /\ \E browserState \in {"connecting", "closed"} :
          LET dropped == IF browserState = "closed" THEN esReleases + 1
                         ELSE esReleases
          IN  /\ esState' = EsAfterError(lsView, browserState)
              /\ esReleases' = IF lsView \in ShopifyViews
                                THEN ReleasesAfterClose(browserState, dropped)
                                ELSE dropped
    /\ isConnected' = IF lsView \in ShopifyViews THEN FALSE ELSE isConnected
    /\ lsConsole' = IF lsView = "LogPanel" THEN "SSE Error:" ELSE lsConsole
    /\ lsLast' = Event("error", "")
    /\ lsErrored' = TRUE
    /\ UNCHANGED <<lsView, lsMounted, logs, lsAdmitted>>

\* v?.k
OptProp(v, k) == IF PropThrows(v) THEN Undefined ELSE Prop(v, k)

\* pushData: actionData?.action === "push" ? actionData : null
PushData == IF OptProp(actionData, "action") = JStr("push") THEN actionData ELSE JNull

\* Whether the card with the clear control is rendered.  LogPanel always
\* renders its button; the Shopify views render the logs card conditionally.
ClearControlShown ==
    CASE lsView = "LogPanel" -> TRUE
      [] lsView = "Index" -> isProcessing \/ Len(logs) > 0
      [] lsView = "UploadCSVPublic" ->
            \/ isProcessing
            \/ OptProp(PushData, "status") = JStr("success")
            \/ Len(logs) > 0

\* The clear control: setLogs([]).
ClearLogs ==
    /\ lsMounted
    /\ ClearControlShown
    /\ logs' = <<>>
    /\ lsAdmitted' = <<>>
    /\ lsLast' = Event("clear", "")
    /\ UNCHANGED <<lsView, lsMounted, esState, isConnected, lsConsole, lsErrored,
                   esReleases>>

\* The component unmounts: the effect's cleanup closes the EventSource, and
\* the component's state, the buffer with it, is gone.
LsUnmount ==
    /\ lsMounted
    /\ lsMounted' = FALSE
    /\ esState' = "closed"
    /\ esReleases' = ReleasesAfterClose(esState, esReleases)
    /\ logs' = <<>>
    /\ lsAdmitted' = <<>>
    /\ lsLast' = Event("unmount", "")
    /\ UNCHANGED <<lsView, isConnected, lsConsole, lsErrored>>

(***************************************************************************)
(* The Shopify workflow views: Index and UploadCSVPublic                   *)
(***************************************************************************)
Min(a, b) == IF a <= b THEN a ELSE b
Max(a, b) == IF a >= b THEN a ELSE b

\* A File of the user's machine.
LocalFile(name, size) == [t |-> "file", name |-> name, size |-> size]

\* acceptedFiles[0] of a drop: a CSV file, an empty one, or nothing accepted.
DroppedFiles ==
    {LocalFile("products.csv", 120), LocalFile("empty.csv", 0), Undefined}

\* The rows of a preview: objects keyed by column name.  The cell values
\* cover a text, zero, null, the empty string, false, a number and true; every
\* eighth row lacks the column.
CellValues ==
    <<JStr("Shirt"), JNum(0), JNull, JStr(""), JBool(FALSE), JNum(12), JBool(TRUE)>>
Row(i) == IF i % 8 = 0 THEN EmptyObj ELSE JObj([title |-> CellValues[i % 8]])
Rows(n) == JArr([i \in 1..n |-> Row(i)])

\* What uploadCSV may resolve with: any JSON body of a 2xx answer.
UploadResults ==
    { JObj([file_name |-> JStr("products.csv"), total_rows |-> JNum(21),
            columns |-> JArr(<<JStr("title")>>), products |-> Rows(21)]),
      JObj([file_name |-> JStr("small.csv"), total_rows |-> JNum(9),
            column_names |-> JArr(<<JStr("title")>>), data_preview |-> Rows(9)]),
      JObj([file_name |-> JStr("bare.csv"), products |-> Rows(3)]),
      EmptyObj,
      JNull }

\* What pushToShopify may resolve with.
PushResults == {JObj([success |-> JBool(TRUE)]), JNull}

\* How the gateway call of a route action may end.
UploadOutcomes ==
    {Resolved(v) : v \in UploadResults}
        \cup {Rejected("Invalid CSV"), Rejected(FetchFailedMessage)}
PushOutcomes ==
    {Resolved(v) : v \in PushResults}
        \cup {Rejected(AccessTokenMessage), Rejected("Push failed: Bad Gateway")}

\* Date.now()
Now == [t |-> "now"]

\* The FormData of a submission.
FormData(actionType, f) == [t |-> "formdata", actionType |-> actionType, file |-> f]

\* file.size === 0: a File of no bytes.  FormData.get yields a string for a
\* text entry, and a string has no size (undefined === 0 is false).
IsEmptyFile(f) == f.t = "file" /\ f.size = 0

\* The route action of the view on a submitted form; outcome is how its
\* gateway call ends.  Index stamps its successes with Date.now().
RouteAction(view, formData, outcome) ==
    LET stamped(o) ==
            IF view = "Index"
            THEN JObj([action |-> o.action, status |-> o.status, data |-> o.data,
                       timestamp |-> Now])
            ELSE JObj(o)
        failed == JObj([status |-> JStr("error"), message |-> JStr(outcome.message)])
    IN  CASE formData.actionType = "upload" ->
                IF ~Truthy(formData.file) \/ IsEmptyFile(formData.file)
                THEN JObj([action |-> JStr("upload"), status |-> JStr("error"),
                           message |-> JStr("Please select a valid CSV file")])
                ELSE IF outcome.kind = "rejected" THEN failed
                ELSE stamped([action |-> JStr("upload"), status |-> JStr("success"),
                              data |-> outcome.value])
          [] formData.actionType = "push" ->
                IF outcome.kind = "rejected" THEN failed
                ELSE stamped([action |-> JStr("push"), status |-> JStr("success"),
                              data |-> outcome.value])
          [] OTHER -> JObj([status |-> JStr("error"), message |-> JStr("Invalid action")])

\* navigation.formData?.get("actionType")
NavActionType(nav) ==
    IF nav.formData = Undefined THEN Undefined ELSE JStr(nav.formData.actionType)

\* isUploading: Index looks at the submission's action type, UploadCSVPublic
\* at the navigation state alone.
NavIsUploading(view, nav) ==
    IF view = "Index"
    THEN nav.state = "submitting" /\ NavActionType(nav) = JStr("upload")
    ELSE nav.state = "submitting"

\* isPushing
NavIsPushing(nav) == nav.state = "submitting" /\ NavActionType(nav) = JStr("push")

\* uploadData / pushData of an actionData
UploadDataOf(ad) == IF OptProp(ad, "action") = JStr("upload") THEN ad ELSE JNull
PushDataOf(ad) == IF OptProp(ad, "action") = JStr("push") THEN ad ELSE JNull

\* hasData, csvData, allProducts of a stored preview
HasDataOf(stored) ==
    OptProp(stored, "status") = JStr("success") /\ Truthy(OptProp(stored, "data"))
CsvDataOf(stored) == IF HasDataOf(stored) THEN Prop(stored, "data") ELSE JNull
AllProductsOf(stored) ==
    IF CsvDataOf(stored) = JNull THEN <<>>
    ELSE Or(Or(Prop(CsvDataOf(stored), "products"),
               Prop(CsvDataOf(stored), "data_preview")), JArr(<<>>)).a

\* columnNames of a csvData that is not null.  Thrown is what stands for a
\* TypeError during the render.
Thrown == [t |-> "thrown"]
ColumnNamesOf(csvData) ==
    LET columns == Prop(csvData, "columns")
        name(c) == Or(Prop(c, "name"), c)
    IN  IF columns.t # "arr"
        THEN Or(Prop(csvData, "column_names"), JArr(<<>>))
        ELSE IF columns.a = <<>> \/ columns.a[1].t \notin {"obj", "arr", "null"}
        THEN columns
        ELSE IF \E i \in 1..Len(columns.a) : PropThrows(columns.a[i])
        THEN Thrown
        ELSE JArr([i \in 1..Len(columns.a) |-> name(columns.a[i])])

HasData == HasDataOf(persistentUploadData)
AllProducts == AllProductsOf(persistentUploadData)

\* itemsPerPage
ItemsPerPage(view) == IF view = "Index" THEN 8 ELSE 10

\* Math.ceil(n / p)
CeilDiv(n, p) == (n + p - 1) \div p

\* totalPages, startIndex, and the rows of the current page
TotalPages(view, products) == CeilDiv(Len(products), ItemsPerPage(view))
StartIndex(view, cur) == (cur - 1) * ItemsPerPage(view)

\* products.slice(from, to) for 0 <= from
Slice(products, from, to) ==
    IF Min(from, Len(products)) >= Min(to, Len(products)) THEN <<>>
    ELSE SubSeq(products, Min(from, Len(products)) + 1, Min(to, Len(products)))

CurrentData(view, products, cur) ==
    Slice(products, StartIndex(view, cur), StartIndex(view, cur) + ItemsPerPage(view))

\* The text React shows for a child: strings and numbers as they are, nothing
\* for booleans, null and undefined.
ReactText(v) ==
    CASE v.t = "str" -> v.s
      [] v.t = "num" -> ToString(v.n)
      [] OTHER -> ""

\* The text of the cell of a row under a column: in the Shopify views
\* `row[col] !== null && row[col] !== undefined ? String(row[col]) : "-"`, in
\* CSVPreviewTable `{row[col] || '-'}`.
CellText(view, row, col) ==
    IF view \in ShopifyViews
    THEN IF Prop(row, col) # JNull /\ Prop(row, col) # Undefined
         THEN JsString(Prop(row, col))
         ELSE "-"
    ELSE ReactText(Or(Prop(row, col), JStr("-")))

\* The controls that push, and when each is shown and disabled.
PushControls(view) ==
    IF view = "Index" THEN {"primaryAction", "Upload to Shopify"}
    ELSE {"primaryAction", "CalloutCard"}

PushControlDisabled(view, control) ==
    CASE view = "Index" -> isProcessing
      [] control = "primaryAction" -> NavIsUploading(view, navigation) \/ isProcessing
      [] OTHER -> FALSE

\* The control that uploads: shown with a selected file, loading while uploading.
UploadControlShown == Truthy(wfFile)
UploadControlDisabled(view) == NavIsUploading(view, navigation)

shopifyState ==
    <<wfFile, navigation, actionData, persistentUploadData, currentPage, isProcessing>>
adminState ==
    <<adData, isPushing, showLogs, isUploading, fuStatus, fuMessage, uploadRequest,
      pushRequests, pushTimers>>

\* The view mounts: fresh component state, and the SSE effect opens the stream.
WfMount ==
    /\ page = "none"
    /\ \E view \in ShopifyViews :
          /\ page' = view
          /\ LsMountOf(view)
    /\ wfFile' = JNull
    /\ navigation' = IdleNavigation
    /\ actionData' = Undefined
    /\ persistentUploadData' = JNull
    /\ currentPage' = 1
    /\ isProcessing' = FALSE
    /\ wfOverlap' = FALSE
    /\ wfLast' = Event("mount", "")
    /\ UNCHANGED adminState

\* handleDrop
HandleDrop ==
    /\ page \in ShopifyViews
    /\ \E f \in DroppedFiles : wfFile' = f
    /\ wfLast' = Event("drop", "")
    /\ UNCHANGED <<page, navigation, actionData, persistentUploadData, currentPage,
                   isProcessing, adminState, wfOverlap, lsVars>>

\* Index: the "Clear selection" button
ClearSelection ==
    /\ page = "Index"
    /\ Truthy(wfFile)
    /\ wfFile' = JNull
    /\ wfLast' = Event("clearSelection", "")
    /\ UNCHANGED <<page, navigation, actionData, persistentUploadData, currentPage,
                   isProcessing, adminState, wfOverlap, lsVars>>

\* submit(formData): the router starts the submission, dropping the one in
\* flight if any; the effect on isPushing sets isProcessing for a push.
Submit(formData) ==
    /\ navigation' = Navigation("submitting", formData)
    /\ isProcessing' = IF formData.actionType = "push" THEN TRUE ELSE isProcessing
    /\ wfOverlap' = \/ wfOverlap
                    \/ /\ navigation.state = "submitting"
                       /\ NavActionType(navigation) = JStr(formData.actionType)
    /\ wfLast' = Event("submit", formData.actionType)
    /\ UNCHANGED <<page, wfFile, actionData, persistentUploadData, currentPage,
                   adminState, lsVars>>

\* handleUpload, from the upload button
HandleUpload ==
    /\ page \in ShopifyViews
    /\ UploadControlShown
    /\ ~UploadControlDisabled(page)
    /\ Submit(FormData("upload", wfFile))

\* handlePushToShopify, from any of the push controls
HandlePushToShopify ==
    /\ page \in ShopifyViews
    /\ HasData
    /\ \E control \in PushControls(page) : ~PushControlDisabled(page, control)
    /\ Submit(FormData("push", JNull))

\* The effect on uploadData: setPersistentUploadData(uploadData) and
\* setCurrentPage(1) when the upload succeeded.
StoredAfterUploadAlways(ok, uploadData, stored) == uploadData

StoredAfterUpload(ok, uploadData, stored) == IF ok THEN uploadData ELSE stored

PageAfterUploadKept(ok, cur) == cur

PageAfterUpload(ok, cur) == IF ok THEN 1 ELSE cur

\* The route action returns: actionData is replaced, the navigation goes on to
\* revalidation, and the effects on uploadData / pushData run.
ActionReturns ==
    /\ page \in ShopifyViews
    /\ navigation.state = "submitting"
    /\ \E outcome \in IF navigation.formData.actionType = "upload"
                      THEN UploadOutcomes ELSE PushOutcomes :
          actionData' = RouteAction(page, navigation.formData, outcome)
    /\ navigation' = Navigation("loading", navigation.formData)
    /\ LET uploadData == UploadDataOf(actionData')
           pushData == PushDataOf(actionData')
           uploadOk == /\ OptProp(uploadData, "status") = JStr("success")
                       /\ page = "Index" => Truthy(OptProp(uploadData, "timestamp"))
           pushOk == /\ OptProp(pushData, "status") = JStr("success")
                     /\ Truthy(OptProp(pushData, "timestamp"))
       IN  /\ persistentUploadData' =
                  StoredAfterUpload(uploadOk, uploadData, persistentUploadData)
           /\ currentPage' = PageAfterUpload(uploadOk, currentPage)
           /\ isProcessing' = IF page = "Index" /\ pushOk THEN FALSE ELSE isProcessing
    /\ wfLast' = Event("return", navigation.formData.actionType)
    /\ UNCHANGED <<page, wfFile, adminState, wfOverlap, lsVars>>

\* Revalidation ends: the navigation is idle again.
NavigationSettles ==
    /\ page \in ShopifyViews
    /\ navigation.state = "loading"
    /\ navigation' = IdleNavigation
    /\ wfLast' = Event("settle", "")
    /\ UNCHANGED <<page, wfFile, actionData, persistentUploadData, currentPage,
                   isProcessing, adminState, wfOverlap, lsVars>>

\* The page after Next and after Previous: p => p + 1 and p => p - 1 in the
\* Shopify views, Math.min(totalPages, prev + 1) and Math.max(1, prev - 1) in
\* CSVPreviewTable.
PageAfterNext(view, products, cur) ==
    IF view \in ShopifyViews THEN cur + 1
    ELSE Min(TotalPages(view, products), cur + 1)

PageAfterPreviousStays(view, cur) == cur

PageAfterPrevious(view, cur) ==
    IF view \in ShopifyViews THEN cur - 1 ELSE Max(1, cur - 1)

\* Pagination of the preview: onNext and onPrevious, enabled by hasNext and
\* hasPrevious.
OnNext ==
    /\ page \in ShopifyViews
    /\ HasData
    /\ currentPage < TotalPages(page, AllProducts)
    /\ currentPage' = PageAfterNext(page, AllProducts, currentPage)
    /\ wfLast' = Event("next", "")
    /\ UNCHANGED <<page, wfFile, navigation, actionData, persistentUploadData,
                   isProcessing, adminState, wfOverlap, lsVars>>

OnPrevious ==
    /\ page \in ShopifyViews
    /\ HasData
    /\ currentPage > 1
    /\ currentPage' = PageAfterPrevious(page, currentPage)
    /\ wfLast' = Event("previous", "")
    /\ UNCHANGED <<page, wfFile, navigation, actionData, persistentUploadData,
                   isProcessing, adminState, wfOverlap, lsVars>>

\* The view unmounts: its state is gone, the cleanup closes the EventSource.
WfUnmount ==
    /\ page \in ShopifyViews
    /\ page' = "none"
    /\ LsUnmount
    /\ wfFile' = JNull
    /\ navigation' = IdleNavigation
    /\ actionData' = Undefined
    /\ persistentUploadData' = JNull
    /\ currentPage' = 1
    /\ isProcessing' = FALSE
    /\ wfLast' = Event("unmount", "")
    /\ UNCHANGED <<adminState, wfOverlap>>

(***************************************************************************)
(* The admin dashboard: UploadPage with FileUpload, CSVPreviewTable and    *)
(* LogPanel                                                                *)
(***************************************************************************)
MaxPushRequests == 2
MaxPushTimers == 1

\* The files a user can select or drop into FileUpload.
SelectableFiles == {LocalFile("products.csv", 120), LocalFile("other.csv", 80)}

\* What the backend answers to FileUpload's POST /upload.
AdminUploadResponses ==
    {Response(200, "OK", Body("json", v)) : v \in UploadResults}
        \cup { Response(200, "OK", Body("<html>", Unparsable)),
               Response(400, "Bad Request",
                        Body("{detail}", JObj([detail |-> JStr("Invalid CSV")]))),
               Response(500, "Internal Server Error", Body("<html>", Unparsable)),
               TransportFailure }

\* { ...data, file }
WithFileSelected(json, f) == JObj([file |-> wfFile] @@ json.o)

WithFile(json, f) == JObj([file |-> f] @@ json.o)

\* FileUpload.uploadFile after the fetch settled with r, for the file it sent:
\* what it hands to onUploadSuccess (Undefined when it does not call it), and
\* the status and message it sets.  The two Vietnamese texts are abbreviated.
UploadSettled(r, f) ==
    IF r = TransportFailure
    THEN [handed |-> Undefined, status |-> "error", message |-> "Failed to fetch"]
    ELSE IF Ok(r)
    THEN IF r.body.json = Unparsable
         THEN [handed |-> Undefined, status |-> "error", message |-> JsonSyntaxMessage]
         ELSE IF PropThrows(r.body.json)
         THEN [handed |-> Undefined, status |-> "error",
               message |-> "Cannot read properties of null (reading 'total_rows')"]
         ELSE [handed |-> WithFile(r.body.json, f), status |-> "success",
               message |-> "Upload ok, rows read: "
                              \o JsString(Prop(r.body.json, "total_rows"))]
    ELSE LET errorData == IF r.body.json = Unparsable THEN EmptyObj ELSE r.body.json
             thrown == IF PropThrows(errorData)
                       THEN NullPropMessage
                       ELSE JsString(Or(Prop(errorData, "detail"),
                                        JStr("Upload failed with status: "
                                                \o ToString(r.status))))
         IN  [handed |-> Undefined, status |-> "error",
              message |-> IF thrown = "" THEN "Upload error" ELSE thrown]

\* CSVPreviewTable: products, and whether it renders at all.
TableProducts == IF adData = JNull THEN Undefined ELSE Prop(adData, "products")
TableRendered ==
    /\ adData # JNull
    /\ TableProducts.t = "arr"
    /\ Len(TableProducts.a) > 0

\* columns={data.columns}, and columns.map in the table's header and rows
TableColumns == IF adData = JNull THEN Undefined ELSE Prop(adData, "columns")
TableThrows == TableRendered /\ TableColumns.t # "arr"

\* {showLogs && <LogPanel />} inside {data && ...}
LogPanelShownWithData(d, show) == d # JNull

LogPanelShown(d, show) == d # JNull /\ show

\* A render of UploadPage mounts or unmounts LogPanel as needed.
RenderLogPanel(shown) ==
    IF shown = lsMounted THEN UNCHANGED lsVars
    ELSE IF shown THEN LsMountOf("LogPanel")
    ELSE LsUnmount

\* UploadPage mounts with FileUpload inside.
AdMount ==
    /\ page = "none"
    /\ page' = "UploadPage"
    /\ adData' = JNull
    /\ isPushing' = FALSE
    /\ showLogs' = FALSE
    /\ wfFile' = JNull
    /\ isUploading' = FALSE
    /\ fuStatus' = "idle"
    /\ fuMessage' = ""
    /\ currentPage' = 1
    /\ uploadRequest' = NoRequest
    /\ pushRequests' = <<>>
    /\ pushTimers' = 0
    /\ wfLast' = Event("mount", "")
    /\ UNCHANGED <<navigation, actionData, persistentUploadData, isProcessing,
                   wfOverlap, lsVars>>

\* FileUpload.handleDrop / handleFileChange
FuSelectFile ==
    /\ page = "UploadPage"
    /\ adData = JNull
    /\ \E f \in SelectableFiles : wfFile' = f
    /\ fuStatus' = "idle"
    /\ fuMessage' = ""
    /\ wfLast' = Event("select", "")
    /\ UNCHANGED <<page, navigation, actionData, persistentUploadData, currentPage,
                   isProcessing, adData, isPushing, showLogs, isUploading,
                   uploadRequest, pushRequests, pushTimers, wfOverlap, lsVars>>

\* FileUpload.removeFile; its button is disabled while uploading.
FuRemoveFile ==
    /\ page = "UploadPage"
    /\ adData = JNull
    /\ Truthy(wfFile)
    /\ ~isUploading
    /\ wfFile' = JNull
    /\ fuStatus' = "idle"
    /\ fuMessage' = ""
    /\ wfLast' = Event("remove", "")
    /\ UNCHANGED <<page, navigation, actionData, persistentUploadData, currentPage,
                   isProcessing, adData, isPushing, showLogs, isUploading,
                   uploadRequest, pushRequests, pushTimers, wfOverlap, lsVars>>

\* FileUpload.uploadFile up to the fetch; its button is disabled without a file
\* and while uploading.
FuUploadFile ==
    /\ page = "UploadPage"
    /\ adData = JNull
    /\ Truthy(wfFile)
    /\ ~isUploading
    /\ isUploading' = TRUE
    /\ fuStatus' = "idle"
    /\ fuMessage' = ""
    /\ uploadRequest' = wfFile
    /\ wfLast' = Event("upload", "")
    /\ UNCHANGED <<page, wfFile, navigation, actionData, persistentUploadData,
                   currentPage, isProcessing, adData, isPushing, showLogs,
                   pushRequests, pushTimers, wfOverlap, lsVars>>

\* FileUpload.uploadFile from the fetch on.  onUploadSuccess is UploadPage's
\* setData: with data set, FileUpload unmounts and CSVPreviewTable mounts on
\* its first page.
FuUploadSettles ==
    /\ page = "UploadPage"
    /\ uploadRequest # NoRequest
    /\ \E r \in AdminUploadResponses :
          LET settled == UploadSettled(r, uploadRequest)
          IN  /\ fuStatus' = settled.status
              /\ fuMessage' = settled.message
              /\ adData' = IF settled.handed = Undefined THEN adData
                           ELSE settled.handed
              /\ wfLast' = Event("uploadSettled", settled.status)
    /\ isUploading' = FALSE
    /\ uploadRequest' = NoRequest
    /\ currentPage' = IF adData' = adData THEN currentPage ELSE 1
    /\ RenderLogPanel(LogPanelShown(adData', showLogs))
    /\ UNCHANGED <<page, wfFile, navigation, actionData, persistentUploadData,
                   isProcessing, isPushing, showLogs, pushRequests, pushTimers,
                   wfOverlap>>

\* UploadPage.handlePushToShopify up to the fetch.  The button is rendered with
\* data and disabled while isPushing.  setShowLogs(true) mounts LogPanel.
AdPushToShopify ==
    /\ page = "UploadPage"
    /\ adData # JNull
    /\ ~isPushing
    /\ Len(pushRequests) < MaxPushRequests
    /\ IF ~Truthy(adData) \/ ~Truthy(Prop(adData, "file"))
       THEN /\ wfLast' = Event("alert", "No file data found.")
            /\ UNCHANGED <<isPushing, showLogs, pushRequests, lsVars>>
       ELSE /\ isPushing' = TRUE
            /\ showLogs' = TRUE
            /\ pushRequests' = Append(pushRequests, Prop(adData, "file"))
            /\ RenderLogPanel(LogPanelShown(adData, TRUE))
            /\ wfLast' = Event("push", "")
    /\ UNCHANGED <<page, wfFile, navigation, actionData, persistentUploadData,
                   currentPage, isProcessing, adData, isUploading, fuStatus,
                   fuMessage, uploadRequest, pushTimers, wfOverlap>>

\* UploadPage.handlePushToShopify from the fetch on, for one of the requests in
\* flight: a failure alerts and clears isPushing, and in every case the
\* 2-second timer is set.
AdPushSettles ==
    /\ page = "UploadPage"
    /\ pushTimers < MaxPushTimers
    /\ \E i \in 1..Len(pushRequests) :
          pushRequests' = SubSeq(pushRequests, 1, i - 1)
                             \o SubSeq(pushRequests, i + 1, Len(pushRequests))
    /\ \E resOk \in BOOLEAN :
          /\ isPushing' = IF resOk THEN isPushing ELSE FALSE
          /\ wfLast' = IF resOk THEN Event("pushSettled", "ok")
                       ELSE Event("alert", "Failed to trigger n8n workflow. Check console.")
    /\ pushTimers' = pushTimers + 1
    /\ UNCHANGED <<page, wfFile, navigation, actionData, persistentUploadData,
                   currentPage, isProcessing, adData, showLogs, isUploading,
                   fuStatus, fuMessage, uploadRequest, wfOverlap, lsVars>>

\* setTimeout(() => setIsPushing(false), 2000) fires.
AdTimerFires ==
    /\ page = "UploadPage"
    /\ pushTimers > 0
    /\ pushTimers' = pushTimers - 1
    /\ isPushing' = FALSE
    /\ wfLast' = Event("timer", "")
    /\ UNCHANGED <<page, wfFile, navigation, actionData, persistentUploadData,
                   currentPage, isProcessing, adData, showLogs, isUploading,
                   fuStatus, fuMessage, uploadRequest, pushRequests, wfOverlap,
                   lsVars>>

\* handleReset: setIsPushing(false)
PushingAfterResetKept(pushing) == pushing

PushingAfterReset(pushing) == FALSE

\* UploadPage.handleReset, from "Upload New File" (rendered with data): LogPanel
\* and CSVPreviewTable unmount, a fresh FileUpload mounts.
AdReset ==
    /\ page = "UploadPage"
    /\ adData # JNull
    /\ adData' = JNull
    /\ showLogs' = FALSE
    /\ isPushing' = PushingAfterReset(isPushing)
    /\ wfFile' = JNull
    /\ isUploading' = FALSE
    /\ fuStatus' = "idle"
    /\ fuMessage' = ""
    /\ currentPage' = 1
    /\ RenderLogPanel(LogPanelShown(JNull, FALSE))
    /\ wfLast' = Event("reset", "")
    /\ UNCHANGED <<page, navigation, actionData, persistentUploadData, isProcessing,
                   uploadRequest, pushRequests, pushTimers, wfOverlap>>

\* CSVPreviewTable.handleNext / handlePrev; the buttons are disabled on the
\* last and on the first page.
TblNext ==
    /\ page = "UploadPage"
    /\ TableRendered
    /\ LET totalPages == TotalPages("CSVPreviewTable", TableProducts.a)
       IN  /\ ~(currentPage = totalPages \/ totalPages = 0)
           /\ currentPage' = PageAfterNext("CSVPreviewTable", TableProducts.a, currentPage)
    /\ wfLast' = Event("next", "")
    /\ UNCHANGED <<page, wfFile, navigation, actionData, persistentUploadData,
                   isProcessing, adminState, wfOverlap, lsVars>>

TblPrev ==
    /\ page = "UploadPage"
    /\ TableRendered
    /\ currentPage # 1
    /\ currentPage' = PageAfterPrevious("CSVPreviewTable", currentPage)
    /\ wfLast' = Event("previous", "")
    /\ UNCHANGED <<page, wfFile, navigation, actionData, persistentUploadData,
                   isProcessing, adminState, wfOverlap, lsVars>>

\* UploadPage unmounts with everything in it; what is still in flight settles
\* into components that are gone.
AdUnmount ==
    /\ page = "UploadPage"
    /\ page' = "none"
    /\ adData' = JNull
    /\ isPushing' = FALSE
    /\ showLogs' = FALSE
    /\ wfFile' = JNull
    /\ isUploading' = FALSE
    /\ fuStatus' = "idle"
    /\ fuMessage' = ""
    /\ currentPage' = 1
    /\ uploadRequest' = NoRequest
    /\ pushRequests' = <<>>
    /\ pushTimers' = 0
    /\ IF lsMounted THEN LsUnmount ELSE UNCHANGED lsVars
    /\ wfLast' = Event("unmount", "")
    /\ UNCHANGED <<navigation, actionData, persistentUploadData, isProcessing,
                   wfOverlap>>

(***************************************************************************)
(* The price-logs page of the admin dashboard                              *)
(***************************************************************************)
\* useState(20)
Limit == 20

MaxFetches == 2

\* Two of the five options of the status select.
StatusFilters == {"ALL", "SUCCESS"}

\* `total` of a response: whatever the backend counts at that moment.
BackendTotals == {0, 20, 45}

\* A fetchLogs call awaiting its response: the page and statusFilter of the
\* render that made it; stale once the response to a later call was applied.
Fetch(p, f) == [page |-> p, statusFilter |-> f, stale |-> FALSE]

\* offset
Offset(p) == (p - 1) * Limit

\* `logs` of the response to a request when the backend counts total rows:
\* the window of the request.  useState([]) is NoLogRows.
LogRows(req, total) ==
    [statusFilter |-> req.statusFilter, offset |-> Offset(req.page),
     count |-> Min(Limit, Max(0, total - Offset(req.page)))]
NoLogRows == [statusFilter |-> "", offset |-> 0, count |-> 0]

\* totalPages
PlTotalPages(total) == CeilDiv(total, Limit)

\* The pagination buttons: disabled={page === 1}, and
\* disabled={page === totalPages || totalPages === 0}.
PlPreviousDisabled(p) == p = 1
PlNextDisabled(p, totalPages) == p = totalPages \/ totalPages = 0

\* fetchLogs up to the fetch: setLoading(true) and the request.
FetchLogs(p, f) ==
    /\ Len(plFetches) < MaxFetches
    /\ plLoading' = TRUE
    /\ plFetches' = Append(plFetches, Fetch(p, f))

\* The page mounts: the effect on [page, statusFilter] fetches.
PlMount ==
    /\ ~plMounted
    /\ plMounted' = TRUE
    /\ plLogs' = NoLogRows
    /\ plTotal' = 0
    /\ plPage' = 1
    /\ plStatusFilter' = "ALL"
    /\ FetchLogs(1, "ALL")
    /\ plLast' = Event("mount", "")

\* The Refresh button: onClick={fetchLogs}
PlRefresh ==
    /\ plMounted
    /\ FetchLogs(plPage, plStatusFilter)
    /\ plLast' = Event("refresh", "")
    /\ UNCHANGED <<plMounted, plLogs, plTotal, plPage, plStatusFilter>>

\* The status select changes: setStatusFilter, setPage(1), and the effect.
PlFilterChange ==
    /\ plMounted
    /\ \E f \in StatusFilters \ {plStatusFilter} :
          /\ plStatusFilter' = f
          /\ FetchLogs(1, f)
    /\ plPage' = 1
    /\ plLast' = Event("filter", "")
    /\ UNCHANGED <<plMounted, plLogs, plTotal>>

\* Previous: setPage(p => Math.max(1, p - 1)), and the effect.
PlPrevious ==
    /\ plMounted
    /\ ~PlPreviousDisabled(plPage)
    /\ plPage' = Max(1, plPage - 1)
    /\ FetchLogs(plPage', plStatusFilter)
    /\ plLast' = Event("previous", "")
    /\ UNCHANGED <<plMounted, plLogs, plTotal, plStatusFilter>>

\* Next: setPage(p => Math.min(totalPages, p + 1)), and the effect.
PlNext ==
    /\ plMounted
    /\ ~PlNextDisabled(plPage, PlTotalPages(plTotal))
    /\ plPage' = Min(PlTotalPages(plTotal), plPage + 1)
    /\ FetchLogs(plPage', plStatusFilter)
    /\ plLast' = Event("next", "")
    /\ UNCHANGED <<plMounted, plLogs, plTotal, plStatusFilter>>

\* The fetches in flight once the i-th is answered; with a response applied,
\* the calls made before it are stale.
FetchesAfter(fetches, i, applied) ==
    [k \in 1..(Len(fetches) - 1) |->
        IF k < i
        THEN [fetches[k] EXCEPT !.stale = fetches[k].stale \/ applied]
        ELSE fetches[k + 1]]

\* fetchLogs after the fetch, for any of the calls in flight: setLogs and
\* setTotal from a 2xx response, console.error otherwise, setLoading(false)
\* in either case.
PlFetchSettles ==
    /\ plMounted
    /\ \E i \in 1..Len(plFetches) :
          \/ \E total \in BackendTotals :
                /\ plLogs' = LogRows(plFetches[i], total)
                /\ plTotal' = total
                /\ plFetches' = FetchesAfter(plFetches, i, TRUE)
                /\ plLast' = Event("settled",
                                   IF plFetches[i].stale THEN "stale" ELSE "applied")
          \/ /\ plFetches' = FetchesAfter(plFetches, i, FALSE)
             /\ plLast' = Event("settled", "failed")
             /\ UNCHANGED <<plLogs, plTotal>>
    /\ plLoading' = FALSE
    /\ UNCHANGED <<plMounted, plPage, plStatusFilter>>

(***************************************************************************)
(* The route actions of the Shopify views, as the endpoints of a POST       *)
(***************************************************************************)
\* What formData.get("actionType") and formData.get("file") may yield for a
\* posted form: the values the views send and those of any other client.  A
\* "file" entry is a File, a string (a text entry), or absent (null).
ActionTypes == {"upload", "push", "delete", "Upload"}
FileEntries ==
    { LocalFile("products.csv", 120), LocalFile("empty.csv", 0), JNull,
      JStr("inline text"), JStr("") }
RouteForms == {FormData(a, f) : a \in ActionTypes, f \in FileEntries}

\* request.formData() rejects with a TypeError for a body that is no form.
FormParseMessage == "Failed to parse body as FormData."

NoOutcome == [kind |-> "none"]

\* The gateway function the action calls for a form, "none" when it returns
\* without calling one.
GatewayCall(formData) ==
    CASE formData.actionType = "upload" ->
            IF ~Truthy(formData.file) \/ IsEmptyFile(formData.file)
            THEN "none" ELSE "uploadCSV"
      [] formData.actionType = "push" -> "pushToShopify"
      [] OTHER -> "none"

\* A request is posted to one of the two routes.  The action of Index begins
\* with authenticate.admin(request); that of UploadCSVPublic with the try.
RaRequest ==
    /\ raPc \in {"idle", "returned", "thrown"}
    /\ \E view \in ShopifyViews, form \in RouteForms \cup {NotForm} :
          /\ raView' = view
          /\ raForm' = form
          /\ raPc' = IF view = "Index" THEN "authenticating" ELSE "dispatch"
    /\ raAuth' = FALSE
    /\ raCalls' = <<>>
    /\ raOutcome' = NoOutcome
    /\ raResult' = Undefined

\* await authenticate.admin(request), outside the try: it resolves, or it
\* throws (a redirect to the login) and the action throws with it.
RaAuthenticate ==
    /\ raPc = "authenticating"
    /\ \E ok \in BOOLEAN :
          /\ raAuth' = ok
          /\ raPc' = IF ok THEN "dispatch" ELSE "thrown"
    /\ UNCHANGED <<raView, raForm, raCalls, raOutcome, raResult>>

\* The try block up to the gateway call: the form is read, and the action
\* returns at once or calls the gateway.
RaDispatch ==
    /\ raPc = "dispatch"
    /\ IF raForm = NotForm
       THEN /\ raResult' = JObj([status |-> JStr("error"),
                                 message |-> JStr(FormParseMessage)])
            /\ raPc' = "returned"
            /\ UNCHANGED raCalls
       ELSE IF GatewayCall(raForm) = "none"
       THEN /\ raResult' = RouteAction(raView, raForm, NoOutcome)
            /\ raPc' = "returned"
            /\ UNCHANGED raCalls
       ELSE /\ raCalls' = Append(raCalls, [fn |-> GatewayCall(raForm),
                                           file |-> raForm.file])
            /\ raPc' = "calling"
            /\ UNCHANGED raResult
    /\ UNCHANGED <<raView, raForm, raAuth, raOutcome>>

\* The gateway call resolves or rejects, and the action returns.
RaGatewaySettles ==
    /\ raPc = "calling"
    /\ \E outcome \in IF GatewayCall(raForm) = "uploadCSV"
                      THEN UploadOutcomes ELSE PushOutcomes :
          /\ raOutcome' = outcome
          /\ raResult' = RouteAction(raView, raForm, outcome)
    /\ raPc' = "returned"
    /\ UNCHANGED <<raView, raForm, raAuth, raCalls>>

(***************************************************************************)
(* Specifications                                                          *)
(***************************************************************************)
vars == <<gwVars, pxVars, lsVars, wfVars, plVars, raVars>>

\* The Backend Gateway alone: any configuration, any sequence of invocations.
GatewayInit ==
    /\ env \in GatewayEnvs
    /\ gwOp = "none"
    /\ gwPc = "idle"
    /\ gwFile = ""
    /\ gwRequests = <<>>
    /\ gwResponse = NoResponse
    /\ gwResult = NoResult
    /\ gwConsole = <<>>
    /\ pxRoute = "none"
    /\ pxPc = "idle"
    /\ pxRequest = Incoming(JNull, NotForm, Unparsable)
    /\ pxForwarded = <<>>
    /\ pxDest = NoResponse
    /\ pxReply = NoReply
    /\ pxConsole = <<>>
    /\ lsView = "Index"
    /\ lsMounted = FALSE
    /\ esState = "none"
    /\ isConnected = FALSE
    /\ logs = <<>>
    /\ lsConsole = ""
    /\ lsLast = Event("none", "")
    /\ lsErrored = FALSE
    /\ esReleases = 0
    /\ lsAdmitted = <<>>
    /\ page = "none"
    /\ wfFile = JNull
    /\ navigation = IdleNavigation
    /\ actionData = Undefined
    /\ persistentUploadData = JNull
    /\ currentPage = 1
    /\ isProcessing = FALSE
    /\ adData = JNull
    /\ isPushing = FALSE
    /\ showLogs = FALSE
    /\ isUploading = FALSE
    /\ fuStatus = "idle"
    /\ fuMessage = ""
    /\ uploadRequest = NoRequest
    /\ pushRequests = <<>>
    /\ pushTimers = 0
    /\ wfLast = Event("none", "")
    /\ wfOverlap = FALSE
    /\ plMounted = FALSE
    /\ plLogs = NoLogRows
    /\ plTotal = 0
    /\ plLoading = TRUE
    /\ plPage = 1
    /\ plStatusFilter = "ALL"
    /\ plFetches = <<>>
    /\ plLast = Event("none", "")
    /\ raView = "Index"
    /\ raPc = "idle"
    /\ raForm = NotForm
    /\ raAuth = FALSE
    /\ raCalls = <<>>
    /\ raOutcome = NoOutcome
    /\ raResult = Undefined

GatewayNext ==
    \/ GetGeneratedContent /\ UNCHANGED <<pxVars, lsVars, wfVars, plVars, raVars>>
    \/ UploadCSV /\ UNCHANGED <<pxVars, lsVars, wfVars, plVars, raVars>>
    \/ PushToShopify /\ UNCHANGED <<pxVars, lsVars, wfVars, plVars, raVars>>
    \/ GwTransportFailure /\ UNCHANGED <<pxVars, lsVars, wfVars, plVars, raVars>>
    \/ GwResponseArrives /\ UNCHANGED <<pxVars, lsVars, wfVars, plVars, raVars>>
    \/ GwReadErrorBody /\ UNCHANGED <<pxVars, lsVars, wfVars, plVars, raVars>>
    \/ GwReadBody /\ UNCHANGED <<pxVars, lsVars, wfVars, plVars, raVars>>

GatewaySpec == GatewayInit /\ [][GatewayNext]_vars

\* The webhook proxy routes alone: any webhook configuration, any requests.
ProxyInit ==
    /\ env \in ProxyEnvs
    /\ gwOp = "none"
    /\ gwPc = "idle"
    /\ gwFile = ""
    /\ gwRequests = <<>>
    /\ gwResponse = NoResponse
    /\ gwResult = NoResult
    /\ gwConsole = <<>>
    /\ pxRoute = "none"
    /\ pxPc = "idle"
    /\ pxRequest = Incoming(JNull, NotForm, Unparsable)
    /\ pxForwarded = <<>>
    /\ pxDest = NoResponse
    /\ pxReply = NoReply
    /\ pxConsole = <<>>
    /\ lsView = "Index"
    /\ lsMounted = FALSE
    /\ esState = "none"
    /\ isConnected = FALSE
    /\ logs = <<>>
    /\ lsConsole = ""
    /\ lsLast = Event("none", "")
    /\ lsErrored = FALSE
    /\ esReleases = 0
    /\ lsAdmitted = <<>>
    /\ page = "none"
    /\ wfFile = JNull
    /\ navigation = IdleNavigation
    /\ actionData = Undefined
    /\ persistentUploadData = JNull
    /\ currentPage = 1
    /\ isProcessing = FALSE
    /\ adData = JNull
    /\ isPushing = FALSE
    /\ showLogs = FALSE
    /\ isUploading = FALSE
    /\ fuStatus = "idle"
    /\ fuMessage = ""
    /\ uploadRequest = NoRequest
    /\ pushRequests = <<>>
    /\ pushTimers = 0
    /\ wfLast = Event("none", "")
    /\ wfOverlap = FALSE
    /\ plMounted = FALSE
    /\ plLogs = NoLogRows
    /\ plTotal = 0
    /\ plLoading = TRUE
    /\ plPage = 1
    /\ plStatusFilter = "ALL"
    /\ plFetches = <<>>
    /\ plLast = Event("none", "")
    /\ raView = "Index"
    /\ raPc = "idle"
    /\ raForm = NotForm
    /\ raAuth = FALSE
    /\ raCalls = <<>>
    /\ raOutcome = NoOutcome
    /\ raResult = Undefined

gwCallVars == <<gwOp, gwPc, gwFile, gwRequests, gwResponse, gwResult, gwConsole>>

ProxyNext ==
    \/ PxTriggerN8n /\ UNCHANGED <<gwCallVars, lsVars, wfVars, plVars, raVars>>
    \/ PxUpload /\ UNCHANGED <<gwCallVars, lsVars, wfVars, plVars, raVars>>
    \/ PxDestFails /\ UNCHANGED <<gwCallVars, lsVars, wfVars, plVars, raVars>>
    \/ PxDestResponds /\ UNCHANGED <<gwCallVars, lsVars, wfVars, plVars, raVars>>

ProxySpec == ProxyInit /\ [][ProxyNext]_vars

\* The log stream consumers alone: any view, any sequence of stream events.
LogInit ==
    /\ env \in {[n \in EnvNames |-> Undefined]}
    /\ gwOp = "none"
    /\ gwPc = "idle"
    /\ gwFile = ""
    /\ gwRequests = <<>>
    /\ gwResponse = NoResponse
    /\ gwResult = NoResult
    /\ gwConsole = <<>>
    /\ pxRoute = "none"
    /\ pxPc = "idle"
    /\ pxRequest = Incoming(JNull, NotForm, Unparsable)
    /\ pxForwarded = <<>>
    /\ pxDest = NoResponse
    /\ pxReply = NoReply
    /\ pxConsole = <<>>
    /\ lsView = "Index"
    /\ lsMounted = FALSE
    /\ esState = "none"
    /\ isConnected = FALSE
    /\ logs = <<>>
    /\ lsConsole = ""
    /\ lsLast = Event("none", "")
    /\ lsErrored = FALSE
    /\ esReleases = 0
    /\ lsAdmitted = <<>>
    /\ page = "none"
    /\ wfFile = JNull
    /\ navigation = IdleNavigation
    /\ actionData = Undefined
    /\ persistentUploadData = JNull
    /\ currentPage = 1
    /\ isProcessing = FALSE
    /\ adData = JNull
    /\ isPushing = FALSE
    /\ showLogs = FALSE
    /\ isUploading = FALSE
    /\ fuStatus = "idle"
    /\ fuMessage = ""
    /\ uploadRequest = NoRequest
    /\ pushRequests = <<>>
    /\ pushTimers = 0
    /\ wfLast = Event("none", "")
    /\ wfOverlap = FALSE
    /\ plMounted = FALSE
    /\ plLogs = NoLogRows
    /\ plTotal = 0
    /\ plLoading = TRUE
    /\ plPage = 1
    /\ plStatusFilter = "ALL"
    /\ plFetches = <<>>
    /\ plLast = Event("none", "")
    /\ raView = "Index"
    /\ raPc = "idle"
    /\ raForm = NotForm
    /\ raAuth = FALSE
    /\ raCalls = <<>>
    /\ raOutcome = NoOutcome
    /\ raResult = Undefined

LogNext ==
    \/ LsMount /\ UNCHANGED <<gwVars, pxVars, wfVars, plVars, raVars>>
    \/ EsOpen /\ UNCHANGED <<gwVars, pxVars, wfVars, plVars, raVars>>
    \/ EsMessage /\ UNCHANGED <<gwVars, pxVars, wfVars, plVars, raVars>>
    \/ EsError /\ UNCHANGED <<gwVars, pxVars, wfVars, plVars, raVars>>
    \/ ClearLogs /\ UNCHANGED <<gwVars, pxVars, wfVars, plVars, raVars>>
    \/ LsUnmount /\ UNCHANGED <<gwVars, pxVars, wfVars, plVars, raVars>>

LogSpec == LogInit /\ [][LogNext]_vars

\* The workflow pages: a page mounts, the user and the network act on it.
WfPayloads == {SuccessPayload}
MaxWfLogs == 2

WorkflowInit ==
    /\ env \in {[n \in EnvNames |-> Undefined]}
    /\ gwOp = "none"
    /\ gwPc = "idle"
    /\ gwFile = ""
    /\ gwRequests = <<>>
    /\ gwResponse = NoResponse
    /\ gwResult = NoResult
    /\ gwConsole = <<>>
    /\ pxRoute = "none"
    /\ pxPc = "idle"
    /\ pxRequest = Incoming(JNull, NotForm, Unparsable)
    /\ pxForwarded = <<>>
    /\ pxDest = NoResponse
    /\ pxReply = NoReply
    /\ pxConsole = <<>>
    /\ lsView = "Index"
    /\ lsMounted = FALSE
    /\ esState = "none"
    /\ isConnected = FALSE
    /\ logs = <<>>
    /\ lsConsole = ""
    /\ lsLast = Event("none", "")
    /\ lsErrored = FALSE
    /\ esReleases = 0
    /\ lsAdmitted = <<>>
    /\ page = "none"
    /\ wfFile = JNull
    /\ navigation = IdleNavigation
    /\ actionData = Undefined
    /\ persistentUploadData = JNull
    /\ currentPage = 1
    /\ isProcessing = FALSE
    /\ adData = JNull
    /\ isPushing = FALSE
    /\ showLogs = FALSE
    /\ isUploading = FALSE
    /\ fuStatus = "idle"
    /\ fuMessage = ""
    /\ uploadRequest = NoRequest
    /\ pushRequests = <<>>
    /\ pushTimers = 0
    /\ wfLast = Event("none", "")
    /\ wfOverlap = FALSE
    /\ plMounted = FALSE
    /\ plLogs = NoLogRows
    /\ plTotal = 0
    /\ plLoading = TRUE
    /\ plPage = 1
    /\ plStatusFilter = "ALL"
    /\ plFetches = <<>>
    /\ plLast = Event("none", "")
    /\ raView = "Index"
    /\ raPc = "idle"
    /\ raForm = NotForm
    /\ raAuth = FALSE
    /\ raCalls = <<>>
    /\ raOutcome = NoOutcome
    /\ raResult = Undefined

WorkflowNext ==
    \/ WfMount /\ UNCHANGED <<gwVars, pxVars, plVars, raVars>>
    \/ HandleDrop /\ UNCHANGED <<gwVars, pxVars, plVars, raVars>>
    \/ ClearSelection /\ UNCHANGED <<gwVars, pxVars, plVars, raVars>>
    \/ HandleUpload /\ UNCHANGED <<gwVars, pxVars, plVars, raVars>>
    \/ HandlePushToShopify /\ UNCHANGED <<gwVars, pxVars, plVars, raVars>>
    \/ ActionReturns /\ UNCHANGED <<gwVars, pxVars, plVars, raVars>>
    \/ NavigationSettles /\ UNCHANGED <<gwVars, pxVars, plVars, raVars>>
    \/ OnNext /\ UNCHANGED <<gwVars, pxVars, plVars, raVars>>
    \/ OnPrevious /\ UNCHANGED <<gwVars, pxVars, plVars, raVars>>
    \/ WfUnmount /\ UNCHANGED <<gwVars, pxVars, plVars, raVars>>
    \/ AdMount /\ UNCHANGED <<gwVars, pxVars, plVars, raVars>>
    \/ FuSelectFile /\ UNCHANGED <<gwVars, pxVars, plVars, raVars>>
    \/ FuRemoveFile /\ UNCHANGED <<gwVars, pxVars, plVars, raVars>>
    \/ FuUploadFile /\ UNCHANGED <<gwVars, pxVars, plVars, raVars>>
    \/ FuUploadSettles /\ UNCHANGED <<gwVars, pxVars, plVars, raVars>>
    \/ AdPushToShopify /\ UNCHANGED <<gwVars, pxVars, plVars, raVars>>
    \/ AdPushSettles /\ UNCHANGED <<gwVars, pxVars, plVars, raVars>>
    \/ AdTimerFires /\ UNCHANGED <<gwVars, pxVars, plVars, raVars>>
    \/ AdReset /\ UNCHANGED <<gwVars, pxVars, plVars, raVars>>
    \/ TblNext /\ UNCHANGED <<gwVars, pxVars, plVars, raVars>>
    \/ TblPrev /\ UNCHANGED <<gwVars, pxVars, plVars, raVars>>
    \/ AdUnmount /\ UNCHANGED <<gwVars, pxVars, plVars, raVars>>
    \/ EsOpen /\ UNCHANGED <<gwVars, pxVars, wfVars, plVars, raVars>>
    \/ EsMessageFrom(WfPayloads, MaxWfLogs) /\ UNCHANGED <<gwVars, pxVars, wfVars, plVars, raVars>>
    \/ EsError /\ UNCHANGED <<gwVars, pxVars, wfVars, plVars, raVars>>
    \/ ClearLogs /\ UNCHANGED <<gwVars, pxVars, wfVars, plVars, raVars>>

WorkflowSpec == WorkflowInit /\ [][WorkflowNext]_vars

\* The workflow pages with the router doing its part: a submission in flight
\* is answered by the route action, and the revalidation that follows ends.
WorkflowFairSpec ==
    /\ WorkflowSpec
    /\ WF_vars(ActionReturns /\ UNCHANGED <<gwVars, pxVars, plVars, raVars>>)
    /\ WF_vars(NavigationSettles /\ UNCHANGED <<gwVars, pxVars, plVars, raVars>>)

\* The preview pages on their own.  The initial states are those right after
\* a successful upload of a CSV of n rows, 0 <= n <= MaxRows, in one of the
\* three pages that show a preview; the steps are the pagination controls.
MaxRows == 25

PreviewViews == ShopifyViews \cup {"UploadPage"}

\* The backend's analysis of a CSV of n rows.
PreviewOf(n) ==
    JObj([file_name |-> JStr("products.csv"), total_rows |-> JNum(n),
          columns |-> JArr(<<JStr("title")>>), products |-> Rows(n)])

\* The preview is on screen, and the rows it pages through.
PreviewShown == IF page \in ShopifyViews THEN HasData ELSE TableRendered
PreviewRows == IF page \in ShopifyViews THEN AllProducts ELSE TableProducts.a

\* The page count in the label: `of ${totalPages}` in the Shopify views,
\* `of {totalPages || 1}` in CSVPreviewTable.
PageCountLabel(view, products) ==
    IF view \in ShopifyViews \/ TotalPages(view, products) # 0
    THEN TotalPages(view, products)
    ELSE 1

\* hasNext of the Shopify views; in CSVPreviewTable, the Next button enabled.
HasNext(view, products, cur) ==
    IF view \in ShopifyViews
    THEN cur < TotalPages(view, products)
    ELSE ~(cur = TotalPages(view, products) \/ TotalPages(view, products) = 0)

\* hasPrevious of the Shopify views; in CSVPreviewTable, Previous enabled.
HasPrevious(view, cur) == IF view \in ShopifyViews THEN cur > 1 ELSE cur # 1

PaginationInit ==
    /\ env \in {[n \in EnvNames |-> Undefined]}
    /\ gwOp = "none"
    /\ gwPc = "idle"
    /\ gwFile = ""
    /\ gwRequests = <<>>
    /\ gwResponse = NoResponse
    /\ gwResult = NoResult
    /\ gwConsole = <<>>
    /\ pxRoute = "none"
    /\ pxPc = "idle"
    /\ pxRequest = Incoming(JNull, NotForm, Unparsable)
    /\ pxForwarded = <<>>
    /\ pxDest = NoResponse
    /\ pxReply = NoReply
    /\ pxConsole = <<>>
    /\ isConnected = FALSE
    /\ logs = <<>>
    /\ lsConsole = ""
    /\ lsErrored = FALSE
    /\ esReleases = 0
    /\ lsAdmitted = <<>>
    /\ navigation = IdleNavigation
    /\ currentPage = 1
    /\ isProcessing = FALSE
    /\ isPushing = FALSE
    /\ showLogs = FALSE
    /\ isUploading = FALSE
    /\ uploadRequest = NoRequest
    /\ pushRequests = <<>>
    /\ pushTimers = 0
    /\ wfOverlap = FALSE
    /\ plMounted = FALSE
    /\ plLogs = NoLogRows
    /\ plTotal = 0
    /\ plLoading = TRUE
    /\ plPage = 1
    /\ plStatusFilter = "ALL"
    /\ plFetches = <<>>
    /\ plLast = Event("none", "")
    /\ raView = "Index"
    /\ raPc = "idle"
    /\ raForm = NotForm
    /\ raAuth = FALSE
    /\ raCalls = <<>>
    /\ raOutcome = NoOutcome
    /\ raResult = Undefined
    /\ page \in PreviewViews
    /\ wfFile = LocalFile("products.csv", 120)
    /\ \E n \in 0..MaxRows :
          /\ persistentUploadData =
                IF page \in ShopifyViews
                THEN RouteAction(page, FormData("upload", wfFile), Resolved(PreviewOf(n)))
                ELSE JNull
          /\ adData =
                IF page \in ShopifyViews THEN JNull
                ELSE UploadSettled(Response(200, "OK", Body("json", PreviewOf(n))),
                                   wfFile).handed
          /\ fuMessage =
                IF page \in ShopifyViews THEN ""
                ELSE UploadSettled(Response(200, "OK", Body("json", PreviewOf(n))),
                                   wfFile).message
    /\ actionData = IF page \in ShopifyViews THEN persistentUploadData ELSE Undefined
    /\ fuStatus = IF page \in ShopifyViews THEN "idle" ELSE "success"
    /\ wfLast = IF page \in ShopifyViews THEN Event("settle", "")
                ELSE Event("uploadSettled", "success")
    /\ lsView = IF page \in ShopifyViews THEN page ELSE "Index"
    /\ lsMounted = (page \in ShopifyViews)
    /\ esState = IF page \in ShopifyViews THEN "connecting" ELSE "none"
    /\ lsLast = IF page \in ShopifyViews THEN Event("mount", "") ELSE Event("none", "")

PaginationNext ==
    \/ OnNext /\ UNCHANGED <<gwVars, pxVars, plVars, raVars>>
    \/ OnPrevious /\ UNCHANGED <<gwVars, pxVars, plVars, raVars>>
    \/ TblNext /\ UNCHANGED <<gwVars, pxVars, plVars, raVars>>
    \/ TblPrev /\ UNCHANGED <<gwVars, pxVars, plVars, raVars>>

PaginationSpec == PaginationInit /\ [][PaginationNext]_vars

\* The price-logs page alone: clicks and responses in any order.
PriceLogsInit ==
    /\ env \in {[n \in EnvNames |-> Undefined]}
    /\ gwOp = "none"
    /\ gwPc = "idle"
    /\ gwFile = ""
    /\ gwRequests = <<>>
    /\ gwResponse = NoResponse
    /\ gwResult = NoResult
    /\ gwConsole = <<>>
    /\ pxRoute = "none"
    /\ pxPc = "idle"
    /\ pxRequest = Incoming(JNull, NotForm, Unparsable)
    /\ pxForwarded = <<>>
    /\ pxDest = NoResponse
    /\ pxReply = NoReply
    /\ pxConsole = <<>>
    /\ lsView = "Index"
    /\ lsMounted = FALSE
    /\ esState = "none"
    /\ isConnected = FALSE
    /\ logs = <<>>
    /\ lsConsole = ""
    /\ lsLast = Event("none", "")
    /\ lsErrored = FALSE
    /\ esReleases = 0
    /\ lsAdmitted = <<>>
    /\ page = "none"
    /\ wfFile = JNull
    /\ navigation = IdleNavigation
    /\ actionData = Undefined
    /\ persistentUploadData = JNull
    /\ currentPage = 1
    /\ isProcessing = FALSE
    /\ adData = JNull
    /\ isPushing = FALSE
    /\ showLogs = FALSE
    /\ isUploading = FALSE
    /\ fuStatus = "idle"
    /\ fuMessage = ""
    /\ uploadRequest = NoRequest
    /\ pushRequests = <<>>
    /\ pushTimers = 0
    /\ wfLast = Event("none", "")
    /\ wfOverlap = FALSE
    /\ plMounted = FALSE
    /\ plLogs = NoLogRows
    /\ plTotal = 0
    /\ plLoading = TRUE
    /\ plPage = 1
    /\ plStatusFilter = "ALL"
    /\ plFetches = <<>>
    /\ plLast = Event("none", "")
    /\ raView = "Index"
    /\ raPc = "idle"
    /\ raForm = NotForm
    /\ raAuth = FALSE
    /\ raCalls = <<>>
    /\ raOutcome = NoOutcome
    /\ raResult = Undefined

PriceLogsNext ==
    \/ PlMount /\ UNCHANGED <<gwVars, pxVars, lsVars, wfVars, raVars>>
    \/ PlRefresh /\ UNCHANGED <<gwVars, pxVars, lsVars, wfVars, raVars>>
    \/ PlFilterChange /\ UNCHANGED <<gwVars, pxVars, lsVars, wfVars, raVars>>
    \/ PlPrevious /\ UNCHANGED <<gwVars, pxVars, lsVars, wfVars, raVars>>
    \/ PlNext /\ UNCHANGED <<gwVars, pxVars, lsVars, wfVars, raVars>>
    \/ PlFetchSettles /\ UNCHANGED <<gwVars, pxVars, lsVars, wfVars, raVars>>

PriceLogsSpec == PriceLogsInit /\ [][PriceLogsNext]_vars

\* The route actions alone: requests of any client, one at a time.
RouteInit ==
    /\ env \in {[n \in EnvNames |-> Undefined]}
    /\ gwOp = "none"
    /\ gwPc = "idle"
    /\ gwFile = ""
    /\ gwRequests = <<>>
    /\ gwResponse = NoResponse
    /\ gwResult = NoResult
    /\ gwConsole = <<>>
    /\ pxRoute = "none"
    /\ pxPc = "idle"
    /\ pxRequest = Incoming(JNull, NotForm, Unparsable)
    /\ pxForwarded = <<>>
    /\ pxDest = NoResponse
    /\ pxReply = NoReply
    /\ pxConsole = <<>>
    /\ lsView = "Index"
    /\ lsMounted = FALSE
    /\ esState = "none"
    /\ isConnected = FALSE
    /\ logs = <<>>
    /\ lsConsole = ""
    /\ lsLast = Event("none", "")
    /\ lsErrored = FALSE
    /\ esReleases = 0
    /\ lsAdmitted = <<>>
    /\ page = "none"
    /\ wfFile = JNull
    /\ navigation = IdleNavigation
    /\ actionData = Undefined
    /\ persistentUploadData = JNull
    /\ currentPage = 1
    /\ isProcessing = FALSE
    /\ adData = JNull
    /\ isPushing = FALSE
    /\ showLogs = FALSE
    /\ isUploading = FALSE
    /\ fuStatus = "idle"
    /\ fuMessage = ""
    /\ uploadRequest = NoRequest
    /\ pushRequests = <<>>
    /\ pushTimers = 0
    /\ wfLast = Event("none", "")
    /\ wfOverlap = FALSE
    /\ plMounted = FALSE
    /\ plLogs = NoLogRows
    /\ plTotal = 0
    /\ plLoading = TRUE
    /\ plPage = 1
    /\ plStatusFilter = "ALL"
    /\ plFetches = <<>>
    /\ plLast = Event("none", "")
    /\ raView = "Index"
    /\ raPc = "idle"
    /\ raForm = NotForm
    /\ raAuth = FALSE
    /\ raCalls = <<>>
    /\ raOutcome = NoOutcome
    /\ raResult = Undefined

RouteNext ==
    \/ RaRequest /\ UNCHANGED <<gwVars, pxVars, lsVars, wfVars, plVars>>
    \/ RaAuthenticate /\ UNCHANGED <<gwVars, pxVars, lsVars, wfVars, plVars>>
    \/ RaDispatch /\ UNCHANGED <<gwVars, pxVars, lsVars, wfVars, plVars>>
    \/ RaGatewaySettles /\ UNCHANGED <<gwVars, pxVars, lsVars, wfVars, plVars>>

RouteSpec == RouteInit /\ [][RouteNext]_vars

(***************************************************************************)
(* Claims about the Backend Gateway (checked under GatewaySpec)            *)
(***************************************************************************)
\* An environment variable is unset when it is absent or empty.
Unset(name) == env[name] \in {Undefined, JStr("")}
BackendUnset == Unset("PYTHON_BACKEND_URL")
ShopUnset == Unset("SHOPIFY_STORE_URL") /\ Unset("SHOPIFY_SHOP_URL")
TokenUnset == Unset("SHOPIFY_ACCESS_TOKEN")
ConfigMessages == {BackendUrlMessage, ShopUrlMessage, AccessTokenMessage}

\* C1 as stated: pushToShopify with the backend URL, the shop URL or the access
\* token unset rejects with one of three pairwise distinct messages and issues
\* no request; and WHENEVER the shop URL is unset, the rejection carries the
\* message naming the shop URL variable.
C1_AsStated ==
    gwOp = "pushToShopify" =>
        /\ Cardinality(ConfigMessages) = 3
        /\ (BackendUnset \/ ShopUnset \/ TokenUnset) =>
              /\ gwPc = "rejected"
              /\ gwResult.message \in ConfigMessages
              /\ gwRequests = <<>>
        /\ ShopUnset =>
              /\ gwPc = "rejected"
              /\ gwResult.message = ShopUrlMessage
              /\ gwRequests = <<>>

\* C1 (amended): pushToShopify with any of the three values unset rejects, before
\* any request, with the message of the FIRST unset value in the order backend
\* URL, shop URL, access token; the three messages are pairwise distinct; with
\* the shop URL unset and the backend URL set the message names the shop URL.
C1_ConfigValidatedFirst ==
    gwOp = "pushToShopify" =>
        /\ Cardinality(ConfigMessages) = 3
        /\ (BackendUnset \/ ShopUnset \/ TokenUnset) =>
              /\ gwPc = "rejected"
              /\ gwRequests = <<>>
              /\ gwResponse = NoResponse
              /\ gwResult.message =
                    IF BackendUnset THEN BackendUrlMessage
                    ELSE IF ShopUnset THEN ShopUrlMessage
                    ELSE AccessTokenMessage
        /\ (ShopUnset /\ ~BackendUnset) =>
              /\ gwPc = "rejected"
              /\ gwResult.message = ShopUrlMessage
              /\ gwRequests = <<>>

C1_Witness ==
    /\ gwOp = "pushToShopify"
    /\ ShopUnset /\ ~BackendUnset /\ ~TokenUnset
    /\ gwPc = "rejected"
    /\ gwResult.message = ShopUrlMessage
    /\ gwRequests = <<>>

GwFetchFailed ==
    \/ gwResponse = TransportFailure
    \/ gwResponse.kind = "response" /\ ~Ok(gwResponse)

\* C2: an invocation of a gateway operation issues at most one HTTP request, and
\* a failed request (transport error or non-2xx) ends in a rejection with no
\* second request.
C2_SingleAttempt ==
    /\ Len(gwRequests) <= 1
    /\ GwFetchFailed =>
          /\ Len(gwRequests) = 1
          /\ gwPc \in {"readingErrorBody", "rejected"}
          /\ gwPc = "rejected" => gwResult.kind = "rejected"

C2_Witness ==
    /\ gwOp = "uploadCSV"
    /\ gwResponse = TransportFailure
    /\ gwPc = "rejected"
    /\ gwResult = Rejected(FetchFailedMessage)
    /\ Len(gwRequests) = 1

GwDetailOps == {"uploadCSV", "pushToShopify"}
GwNon2xx == gwResponse.kind = "response" /\ ~Ok(gwResponse)
GwHasDetail(json) ==
    /\ json.t = "obj"
    /\ "detail" \in DOMAIN json.o
    /\ json.o["detail"] # JStr("")

\* C3 as stated, on its plain cases (a body that is a JSON object or does not
\* parse, a status line with a reason phrase): for uploadCSV and pushToShopify
\* a non-2xx response never resolves, and the rejection message is the body's
\* detail when the body parses as JSON and carries one, and the HTTP status text
\* otherwise.
C3_AsStated ==
    (/\ gwOp \in GwDetailOps
     /\ GwNon2xx
     /\ gwResponse.statusText # ""
     /\ gwResponse.body.json # JNull) =>
        /\ gwPc # "resolved"
        /\ gwPc = "rejected" =>
              gwResult.message =
                 IF GwHasDetail(gwResponse.body.json)
                 THEN JsString(gwResponse.body.json.o["detail"])
                 ELSE gwResponse.statusText

\* C3 (amended): a non-2xx response never resolves; the rejection message is the
\* string form of detail when the body is a JSON object with a non-empty detail,
\* the status text when the body does not parse and the status text is not
\* empty, the runtime's TypeError when the body is JSON null, and otherwise
\* "Upload failed: " / "Push failed: " followed by the status text.
C3_DetailOrPrefixedStatus ==
    (gwOp \in GwDetailOps /\ GwNon2xx) =>
        /\ gwPc # "resolved"
        /\ gwPc = "rejected" =>
              /\ gwResult.message # ""
              /\ gwResult.message =
                   LET json == gwResponse.body.json
                       prefix == IF gwOp = "uploadCSV" THEN "Upload failed: "
                                 ELSE "Push failed: "
                   IN  IF json = Unparsable /\ gwResponse.statusText # ""
                       THEN gwResponse.statusText
                       ELSE IF json = JNull THEN NullPropMessage
                       ELSE IF json # Unparsable /\ GwHasDetail(json)
                       THEN JsString(json.o["detail"])
                       ELSE prefix \o gwResponse.statusText

C3_Witness ==
    /\ gwOp = "uploadCSV"
    /\ GwNon2xx
    /\ gwResponse.body.json = EmptyObj
    /\ gwResponse.statusText = "Bad Request"
    /\ gwPc = "rejected"
    /\ gwResult.message = "Upload failed: Bad Request"

\* C4 as stated: whatever the backend answers, uploadCSV either resolves with an
\* object holding total_rows >= 0 and a columns or column_names field, or
\* rejects with a non-empty message.
C4_AsStated ==
    gwOp = "uploadCSV" =>
        /\ gwPc = "resolved" =>
              LET v == gwResult.value
              IN  /\ v.t = "obj"
                  /\ "total_rows" \in DOMAIN v.o
                  /\ v.o["total_rows"].t = "num"
                  /\ v.o["total_rows"].n >= 0
                  /\ ("columns" \in DOMAIN v.o \/ "column_names" \in DOMAIN v.o)
        /\ gwPc = "rejected" => gwResult.message # ""

(***************************************************************************)
(* Claims about the webhook proxy routes (checked under ProxySpec)         *)
(***************************************************************************)
PxUrlUnset == env["NEXT_PUBLIC_N8N_WEBHOOK_URL"] \in {Undefined, JStr("")}
PxContentType == IF pxRequest.contentType = JNull THEN "" ELSE pxRequest.contentType.s
PxMultipart == Includes(PxContentType, "multipart/form-data")
PxJsonHeaders == <<(<<"Content-Type", "application/json">>)>>
PxThrew == \E i \in 1..Len(pxConsole) : pxConsole[i] \in {"N8n Proxy Error:", "Upload proxy error:"}

\* C5: the trigger-n8n route forwards a multipart request as its form body with
\* no Content-Type header of its own, and any other request as the re-serialized
\* JSON body with Content-Type: application/json; a request whose body can be
\* read is forwarded whenever the webhook URL is configured.
C5_HeadersFollowContentType ==
    pxRoute = "trigger-n8n" =>
        /\ pxForwarded # <<>> =>
              /\ Len(pxForwarded) = 1
              /\ IF PxMultipart
                 THEN /\ pxForwarded[1].headers = <<>>
                      /\ pxForwarded[1].body = [t |-> "formdata", entries |-> pxRequest.form.entries]
                 ELSE /\ pxForwarded[1].headers = PxJsonHeaders
                      /\ pxForwarded[1].body = [t |-> "jsontext", of |-> pxRequest.json]
        /\ (~PxUrlUnset /\ PxMultipart /\ pxRequest.form # NotForm) => Len(pxForwarded) = 1
        /\ (~PxUrlUnset /\ ~PxMultipart /\ pxRequest.json # Unparsable) => Len(pxForwarded) = 1

C5_Witness ==
    /\ pxRoute = "trigger-n8n"
    /\ PxMultipart
    /\ Len(pxForwarded) = 1
    /\ pxRequest.form # NotForm
    /\ Len(pxRequest.form.entries) = 3
    /\ pxForwarded[1].headers = <<>>
    /\ pxPc = "done"
    /\ pxReply.status = 200

\* C6 as stated, for requests whose body can be read: in both proxy variants an
\* absent webhook URL always yields HTTP 500 with the configuration error, and
\* nothing is forwarded.
C6_AsStated ==
    (/\ pxRoute # "none"
     /\ PxUrlUnset
     /\ pxRoute = "upload" => pxRequest.form # NotForm) =>
        /\ pxPc = "done"
        /\ pxReply = Reply(500, ErrorPayload(ConfigErrorText))
        /\ pxForwarded = <<>>

\* C6 (amended): with the webhook URL absent nothing is ever forwarded; the
\* trigger-n8n route always answers 500 with the configuration error; the file
\* upload proxy answers 500 with the configuration error only when the form can
\* be read and holds a file, and otherwise answers 400 (no file) or 500 with the
\* form parse error, both decided before the configuration is read.
C6_UnconfiguredNeverForwards ==
    (pxRoute # "none" /\ PxUrlUnset) =>
        /\ pxPc = "done"
        /\ pxForwarded = <<>>
        /\ pxDest = NoResponse
        /\ pxRoute = "trigger-n8n" => pxReply = Reply(500, ErrorPayload(ConfigErrorText))
        /\ pxRoute = "upload" =>
              pxReply =
                 IF pxRequest.form = NotForm
                 THEN Reply(500, ErrorPayload(FormDataFailedMessage))
                 ELSE IF \A i \in 1..Len(pxRequest.form.entries) :
                            pxRequest.form.entries[i][1] # "file"
                 THEN Reply(400, ErrorPayload(NoFileText))
                 ELSE IF FormGet(pxRequest.form.entries, "file") = JStr("")
                 THEN Reply(400, ErrorPayload(NoFileText))
                 ELSE Reply(500, ErrorPayload(ConfigErrorText))

C6_Witness ==
    /\ pxRoute = "upload"
    /\ PxUrlUnset
    /\ pxRequest.form # NotForm
    /\ FormGet(pxRequest.form.entries, "file") = JFile("products.csv")
    /\ pxReply = Reply(500, ErrorPayload(ConfigErrorText))
    /\ pxForwarded = <<>>

PxAnswered == pxPc = "done" /\ pxDest # NoResponse
PxEmbedded ==
    ErrorPayload("N8n responded with " \o ToString(pxDest.status) \o ": " \o pxDest.body.text)
PxSuccessData ==
    IF pxDest.body.json = Unparsable THEN JObj([success |-> JBool(TRUE)])
    ELSE pxDest.body.json

\* C7 as stated, for webhook answers whose status may carry a body: once a
\* request was forwarded, a non-2xx answer of the webhook is returned as an
\* error payload embedding its raw body with exactly its status code, a 2xx
\* answer as its JSON or {success: true}, and only a transport failure or a
\* thrown exception yields a 500.
C7_AsStated ==
    (PxAnswered /\ (pxDest.kind = "response" => pxDest.status # 304)) =>
        /\ (pxDest.kind = "response" /\ ~Ok(pxDest)) =>
              pxReply = Reply(pxDest.status, PxEmbedded)
        /\ (pxDest.kind = "response" /\ Ok(pxDest)) => pxReply.body = PxSuccessData
        /\ pxReply.status = 500 => (pxDest = TransportFailure \/ PxThrew)

\* C7 (amended): a non-2xx answer of the webhook is returned as an error payload
\* embedding its raw body with exactly its status code, except a 304, whose
\* status allows no body, so that building the reply throws and the proxy
\* answers 500; a 2xx answer is returned as its JSON, or {success: true} when it
\* does not parse, with status 200; a 500 arises only from a missing
\* configuration, a transport failure, a thrown exception or a webhook answer
\* that is itself a 500.
C7_StatusPassthrough ==
    /\ PxAnswered =>
        /\ (pxDest.kind = "response" /\ ~Ok(pxDest) /\ pxDest.status # 304) =>
              pxReply = Reply(pxDest.status, PxEmbedded)
        /\ (pxDest.kind = "response" /\ pxDest.status = 304) =>
              /\ pxReply.status = 500
              /\ PxThrew
        /\ (pxDest.kind = "response" /\ Ok(pxDest)) => pxReply = Reply(200, PxSuccessData)
        /\ pxDest = TransportFailure =>
              /\ pxReply = Reply(500, ErrorPayload(FetchFailedMessage))
              /\ PxThrew
    /\ pxReply.status = 500 =>
          \/ PxUrlUnset
          \/ PxThrew
          \/ pxDest.kind = "response" /\ pxDest.status = 500

C7_Witness ==
    /\ PxAnswered
    /\ pxDest.kind = "response"
    /\ pxDest.status = 404
    /\ pxDest.body.text = "Workflow could not be started"
    /\ pxReply.status = 404
    /\ pxReply.body = ErrorPayload("N8n responded with 404: Workflow could not be started")

PxNotFile(e) == e[1] # "file"
PxIsFile(e) == e[1] = "file"

\* C8: the file upload proxy forwards a fresh multipart body made of the
\* incoming `file` field followed by every incoming non-file entry, key and
\* value, in order, nothing dropped and nothing added; a form without a `file`
\* field is answered 400 and nothing is forwarded.
C8_FileAndOtherFieldsForwarded ==
    pxRoute = "upload" =>
        /\ pxForwarded # <<>> =>
              /\ Len(pxForwarded) = 1
              /\ pxRequest.form # NotForm
              /\ pxForwarded[1].headers = <<>>
              /\ pxForwarded[1].body.t = "formdata"
              /\ LET sent == pxForwarded[1].body.entries
                     got == pxRequest.form.entries
                 IN  /\ SelectSeq(sent, PxIsFile) =
                           <<Head(SelectSeq(got, PxIsFile))>>
                     /\ SelectSeq(sent, PxNotFile) = SelectSeq(got, PxNotFile)
        /\ (pxRequest.form # NotForm /\ SelectSeq(pxRequest.form.entries, PxIsFile) = <<>>) =>
              /\ pxPc = "done"
              /\ pxReply = Reply(400, ErrorPayload(NoFileText))
              /\ pxForwarded = <<>>

C8_Witness ==
    /\ pxRoute = "upload"
    /\ Len(pxForwarded) = 1
    /\ pxForwarded[1].body.entries =
          <<(<<"file", JFile("products.csv")>>), (<<"note", JStr("n1")>>),
            (<<"tag", JStr("t1")>>)>>
    /\ pxRequest.form.entries[1][1] = "note"

(***************************************************************************)
(* Claims about the log stream consumers (checked under LogSpec)           *)
(***************************************************************************)
\* C9 as stated: in every log stream consumer an error event leaves the status
\* disconnected and the connection torn down, and for the rest of the mount the
\* connection is not reopened and no entry is appended.
C9_AsStated ==
    [][(lsMounted /\ lsErrored /\ lsMounted') =>
          /\ esState = "closed"
          /\ ~isConnected
          /\ esState' = "closed"
          /\ Len(logs') <= Len(logs)]_vars

\* A payload is malformed when it does not parse, with or without one layer of
\* enclosing quotes, or parses to a value that is no object with a message.
Malformed(data) ==
    \/ JsonParse(data) = Unparsable /\ JsonParse(StripQuotes(data)) = Unparsable
    \/ /\ JsonParse(data) # Unparsable
       /\ \/ JsonParse(data).t # "obj"
          \/ "message" \notin DOMAIN JsonParse(data).o

\* C10 as stated: a malformed payload leaves the log buffer exactly as it was
\* and the consumer running (mounted, stream still open for later messages).
C10_AsStated ==
    [][(lsLast'.kind = "message" /\ Malformed(lsLast'.data)) =>
          /\ logs' = logs
          /\ lsMounted'
          /\ esState' = "open"]_vars

\* C11 as stated: when the LogPanel stream delivers the payload
\* {'message': 'Success: synced'}, an entry whose message is "Success: synced"
\* is appended at the end of the buffer, and that message passes the filter.
C11_AsStated ==
    [][(lsView = "LogPanel" /\ lsLast'.kind = "message"
          /\ lsLast'.data = PythonDictPayload) =>
          /\ Len(logs') = Len(logs) + 1
          /\ Prop(logs'[Len(logs')], "message") = JStr("Success: synced")
          /\ ShouldShow("Success: synced")]_vars

\* C11 (amended): when the LogPanel stream delivers the JSON text
\* {"message": "Success: synced"} wrapped in one pair of single quotes, LogPanel
\* strips the pair, parses the rest and appends the parsed entry, whose message
\* "Success: synced" passes the filter; the payload
\* {'message': 'Success: synced'} is not wrapped in quotes and is no JSON:
\* nothing is appended and the parse error goes to the console.
C11_QuoteWrappedJsonAppended ==
    [][(lsView = "LogPanel" /\ lsLast'.kind = "message") =>
          /\ lsLast'.data = QuotedSuccessPayload =>
                /\ logs' = logs \o <<JObj([message |-> JStr("Success: synced")])>>
                /\ ShouldShow("Success: synced")
          /\ lsLast'.data = PythonDictPayload =>
                /\ logs' = logs
                /\ lsConsole' = "Error parsing log:"]_vars

C11_Witness ==
    /\ lsView = "LogPanel"
    /\ lsLast = Event("message", PythonDictPayload)
    /\ lsConsole = "Error parsing log:"
    /\ logs = <<ConnectedEntry, JObj([message |-> JStr("Success: synced")])>>

\* A well-formed payload: JSON for an object whose message is a string.
WellFormed(data) ==
    /\ JsonParse(data) # Unparsable
    /\ JsonParse(data).t = "obj"
    /\ "message" \in DOMAIN JsonParse(data).o
    /\ JsonParse(data).o["message"].t = "str"

MessageOf(data) == JsonParse(data).o["message"].s

\* The line the Shopify views show for a well-formed payload.
ShopifyLine(data) ==
    JStr("[" \o TimeString(Prop(JsonParse(data), "timestamp")) \o "] "
         \o MessageOf(data))

\* A well-formed message without keyword is left out by LogPanel and shown by
\* the Shopify views.
FilterByView ==
    (lsLast'.kind = "message" /\ WellFormed(lsLast'.data)
        /\ \A k \in Keywords : ~Includes(MessageOf(lsLast'.data), k)) =>
       /\ lsView = "LogPanel" => logs' = logs
       /\ lsView \in ShopifyViews => logs' = logs \o <<ShopifyLine(lsLast'.data)>>

\* C12 as stated: FilterByView, and the displayed entries are, in order,
\* exactly the admitted messages in arrival order.
C12_AsStated ==
    [][FilterByView /\ logs' = lsAdmitted']_vars

\* C12 (amended): FilterByView, and the displayed entries other than the
\* "Connected to log stream..." entries LogPanel adds when the stream opens
\* are, in order, exactly the messages admitted since the buffer was last empty,
\* in arrival order.
C12_FilterAndArrivalOrder ==
    [][/\ FilterByView
       /\ SelectSeq(logs', LAMBDA e : e # ConnectedEntry) = lsAdmitted']_vars

C12_Witness ==
    /\ lsView = "LogPanel"
    /\ lsLast = Event("message", InfoPayload)
    /\ Len(lsAdmitted) = 2
    /\ lsAdmitted[1] # lsAdmitted[2]
    /\ logs = <<ConnectedEntry>> \o lsAdmitted

\* C13: the log buffer is append-only between clears: every step leaves the
\* buffer as it is, appends one entry at its end, or empties it, and it is
\* emptied only by the clear control or with the state of the component, when
\* it unmounts or mounts anew.
C13_AppendOnlyBetweenClears ==
    [][\/ logs' = logs
       \/ /\ Len(logs') = Len(logs) + 1
          /\ SubSeq(logs', 1, Len(logs)) = logs
          /\ lsLast'.kind \in {"message", "open"}
       \/ /\ logs' = <<>>
          /\ lsLast'.kind \in {"clear", "mount", "unmount"}]_vars

C13_Witness ==
    /\ lsView = "UploadCSVPublic"
    /\ lsLast.kind = "message"
    /\ Len(logs) = 3
    /\ OnMessage(lsView, lsLast.data).do = "append"
    /\ logs[3] = OnMessage(lsView, lsLast.data).entry
    /\ logs[1] # logs[3]
    /\ logs[2] # logs[3]

\* An entry that is a relevant stream message: an object whose message is a
\* string containing at least one relevance keyword.
RelevantEntry(e) ==
    /\ e.t = "obj"
    /\ "message" \in DOMAIN e.o
    /\ e.o["message"].t = "str"
    /\ \E k \in Keywords : Includes(e.o["message"].s, k)

\* C29 as stated: in the filtered LogPanel every entry of the buffer is a
\* message received from the stream whose text contains a relevance keyword,
\* and no entry is added by any event other than a stream message.
C29_AsStated ==
    [][lsView' = "LogPanel" =>
          /\ \A i \in 1..Len(logs') :
                 RelevantEntry(logs'[i]) /\ \E j \in 1..Len(lsAdmitted') :
                                               lsAdmitted'[j] = logs'[i]
          /\ Len(logs') > Len(logs) => lsLast'.kind = "message"]_vars

\* C29 (amended): in the filtered LogPanel every entry of the buffer is either
\* the "Connected to log stream..." notice that onopen appends, or a message
\* received from the stream whose text contains a relevance keyword; an entry
\* is added only by the open event (the notice) or by a stream message (the
\* parsed payload of that message).
C29_NoticeOrRelevantMessage ==
    [][lsView' = "LogPanel" =>
          /\ \A i \in 1..Len(logs') :
                 \/ logs'[i] = ConnectedEntry
                 \/ /\ RelevantEntry(logs'[i])
                    /\ \E j \in 1..Len(lsAdmitted') : lsAdmitted'[j] = logs'[i]
          /\ Len(logs') > Len(logs) =>
                \/ /\ lsLast'.kind = "open"
                   /\ logs' = logs \o <<ConnectedEntry>>
                \/ /\ lsLast'.kind = "message"
                   /\ logs' = logs \o <<JsonParse(StripQuotes(lsLast'.data))>>]_vars

C29_Witness ==
    /\ lsView = "LogPanel"
    /\ lsMounted
    /\ lsLast = Event("message", QuotedErrorPayload)
    /\ Len(logs) = 3
    /\ logs[1] = ConnectedEntry
    /\ RelevantEntry(logs[2])
    /\ logs[3] = JsonParse(StripQuotes(QuotedErrorPayload))
    /\ logs[2] # logs[3]

\* C14: closing the log consumer releases the stream exactly once on every
\* exit path: the EventSource of a mount lets go of its stream at most once,
\* and after the teardown it is closed and has let go of it exactly once,
\* whether or not the error handler or the browser had closed it before.
C14_ReleasedExactlyOnce ==
    /\ esReleases <= 1
    /\ (~lsMounted /\ lsLast.kind = "unmount") =>
          /\ esState = "closed"
          /\ esReleases = 1

C14_Witness ==
    /\ lsView = "Index"
    /\ ~lsMounted
    /\ lsLast.kind = "unmount"
    /\ lsErrored
    /\ esState = "closed"
    /\ esReleases = 1

(***************************************************************************)
(* Claims about the workflow pages (checked under WorkflowSpec)            *)
(***************************************************************************)
\* A push is in progress: submitted and not yet returned in the Shopify views;
\* requested, flagged or awaiting its timer in the admin page.
PushInProgress ==
    \/ page \in ShopifyViews /\ (NavIsPushing(navigation) \/ isProcessing)
    \/ page = "UploadPage" /\ (isPushing \/ pushRequests # <<>> \/ pushTimers > 0)

\* C15 as stated: in every reachable state a log stream connection is open
\* only if a push is in progress.
C15_AsStated ==
    esState = "open" => PushInProgress

\* C15 (amended): the log stream follows the mounted consumer, not the push:
\* in the Shopify views the consumer exists from the mount of the view to its
\* teardown, whether or not a push was ever triggered; in the admin page
\* LogPanel exists exactly while a preview is stored and showLogs is set, that
\* is from the first push of a session until the reset, also after the push has
\* ended; and a connection is connecting or open only in a mounted consumer.
C15_StreamFollowsConsumer ==
    /\ page \in ShopifyViews => (lsMounted /\ lsView = page)
    /\ page = "UploadPage" =>
          /\ lsMounted <=> (adData # JNull /\ showLogs)
          /\ lsMounted => lsView = "LogPanel"
    /\ page = "none" => ~lsMounted
    /\ esState \in {"connecting", "open"} => lsMounted

C15_Witness ==
    /\ page = "UploadPage"
    /\ esState = "open"
    /\ ~PushInProgress
    /\ wfLast = Event("timer", "")

\* The step in which the route action of the Shopify view returns.
ReturnStep(actionType) ==
    /\ page \in ShopifyViews
    /\ navigation.state = "submitting"
    /\ NavActionType(navigation) = JStr(actionType)
    /\ navigation'.state = "loading"

\* C16: when the upload action returns a success, the view stores it as the
\* preview (its data is the returned UploadResult) and shows page 1, whatever
\* page was shown; when it returns an error, the message is in the banner and
\* the upload control of a selected file is enabled again.
C16_UploadStoresPreviewAndResetsPage ==
    [][ReturnStep("upload") =>
          /\ OptProp(actionData', "status") = JStr("success") =>
                /\ persistentUploadData' = actionData'
                /\ \E v \in UploadResults :
                      Prop(persistentUploadData', "data") = v
                /\ currentPage' = 1
          /\ OptProp(actionData', "status") # JStr("success") =>
                /\ OptProp(actionData', "status") = JStr("error")
                /\ Prop(actionData', "message").t = "str"
                /\ wfFile' = wfFile
                /\ UploadControlShown => ~NavIsUploading(page', navigation')]_vars

C16_Witness ==
    /\ page = "Index"
    /\ wfLast = Event("return", "upload")
    /\ navigation.state = "loading"
    /\ persistentUploadData = actionData
    /\ HasData
    /\ Len(AllProducts) = 9
    /\ currentPage = 1

AdminResetStep ==
    page = "UploadPage" /\ page' = "UploadPage" /\ adData # JNull /\ adData' = JNull
ClearSelectionStep ==
    page = "Index" /\ page' = "Index" /\ Truthy(wfFile) /\ wfFile' = JNull

\* The push of the view has ended, with a success or with an error.
PushEnded ==
    /\ navigation.state # "submitting"
    /\ \/ OptProp(PushDataOf(actionData), "status") = JStr("success")
       \/ OptProp(actionData, "status") = JStr("error")

\* C18 as stated: a user reset from the completed or failed stage clears the
\* UploadResult, the PushResult and the log buffer and leaves the workflow at
\* the file selection.
C18_AsStated ==
    [][/\ AdminResetStep =>
             /\ adData' = JNull
             /\ ~lsMounted' /\ logs' = <<>>
             /\ wfFile' = JNull
       /\ (ClearSelectionStep /\ PushEnded) =>
             /\ persistentUploadData' = JNull
             /\ actionData' = Undefined
             /\ logs' = <<>>
             /\ wfFile' = JNull]_vars

\* C18 (amended): in the admin page "Upload New File" clears the stored data,
\* hides LogPanel and so discards its buffer, clears isPushing and shows a
\* fresh FileUpload with no file, status or message, so that nothing of the
\* previous session stays visible; the Shopify views have no such reset:
\* "Clear selection" of Index clears the selected file only, and the preview,
\* the page, the action result and the log buffer stay as they are.
C18_ResetClearsAdminSession ==
    [][/\ AdminResetStep =>
             /\ adData' = JNull
             /\ ~showLogs' /\ ~lsMounted' /\ logs' = <<>>
             /\ ~isPushing'
             /\ wfFile' = JNull /\ ~isUploading'
             /\ fuStatus' = "idle" /\ fuMessage' = ""
             /\ currentPage' = 1
       /\ ClearSelectionStep =>
             /\ wfFile' = JNull
             /\ persistentUploadData' = persistentUploadData
             /\ currentPage' = currentPage
             /\ actionData' = actionData
             /\ logs' = logs]_vars

C18_Witness ==
    /\ page = "UploadPage"
    /\ wfLast = Event("reset", "")
    /\ lsLast = Event("unmount", "")
    /\ adData = JNull
    /\ logs = <<>>
    /\ pushRequests = <<>>
    /\ pushTimers = 0

\* A request of the given action type is in flight: the navigation is
\* submitting a form that declares that type.
InFlight(actionType) ==
    navigation.state = "submitting" /\ NavActionType(navigation) = JStr(actionType)

\* C19 as stated: in the Shopify views every control that triggers an action
\* is disabled while a request of the same action type is in flight, two
\* requests of one type are never in flight together, and a control of the
\* other action type is not blocked.
C19_AsStated ==
    page \in ShopifyViews =>
        /\ (InFlight("push") /\ HasData) =>
              \A control \in PushControls(page) : PushControlDisabled(page, control)
        /\ (InFlight("upload") /\ UploadControlShown) => UploadControlDisabled(page)
        /\ ~wfOverlap
        /\ (InFlight("push") /\ UploadControlShown) => ~UploadControlDisabled(page)
        /\ (InFlight("upload") /\ HasData /\ ~isProcessing) =>
              \A control \in PushControls(page) : ~PushControlDisabled(page, control)

(***************************************************************************)
(* Claims about the preview's pagination (checked under PaginationSpec)    *)
(***************************************************************************)
\* The rows of the pages 1..k, one page after the other.
RECURSIVE PagesUpTo(_, _, _)
PagesUpTo(view, products, k) ==
    IF k = 0 THEN <<>>
    ELSE PagesUpTo(view, products, k - 1) \o CurrentData(view, products, k)

\* C20 as stated: for N rows and page size P the displayed page count is
\* max(1, ceil(N/P)); every page in 1..pageCount shows min(P, N - (page-1)*P)
\* rows, the pages do not overlap and together hold all rows in order; and 25
\* rows at page size 10 give pages of 10, 10 and 5 rows with no next page
\* after the third.
C20_AsStated ==
    PreviewShown =>
        LET P == ItemsPerPage(page)
            N == Len(PreviewRows)
            pageCount == PageCountLabel(page, PreviewRows)
        IN  /\ pageCount = Max(1, CeilDiv(N, P))
            /\ \A pg \in 1..pageCount :
                  Len(CurrentData(page, PreviewRows, pg)) = Min(P, N - (pg - 1) * P)
            /\ PagesUpTo(page, PreviewRows, pageCount) = PreviewRows
            /\ (N = 25 /\ P = 10) =>
                  /\ pageCount = 3
                  /\ Len(CurrentData(page, PreviewRows, 1)) = 10
                  /\ Len(CurrentData(page, PreviewRows, 2)) = 10
                  /\ Len(CurrentData(page, PreviewRows, 3)) = 5
                  /\ ~HasNext(page, PreviewRows, 3)

\* C21 as stated: in every paginated view "previous" is disabled when
\* page <= 1 and "next" when page >= pageCount, and the current page is
\* always within [1, max(1, pageCount)].
C21_AsStated ==
    /\ PreviewShown =>
          LET pageCount == TotalPages(page, PreviewRows)
          IN  /\ currentPage <= 1 => ~HasPrevious(page, currentPage)
              /\ currentPage >= pageCount => ~HasNext(page, PreviewRows, currentPage)
              /\ currentPage \in 1..Max(1, pageCount)
    /\ plMounted =>
          LET pageCount == PlTotalPages(plTotal)
          IN  /\ plPage <= 1 => PlPreviousDisabled(plPage)
              /\ plPage >= pageCount => PlNextDisabled(plPage, pageCount)
              /\ plPage \in 1..Max(1, pageCount)

\* What a push of Next or Previous does to the page: nothing when the
\* control is disabled.
PushNext(view, products, cur) ==
    IF HasNext(view, products, cur) THEN PageAfterNext(view, products, cur) ELSE cur
PushPrevious(view, cur) ==
    IF HasPrevious(view, cur) THEN PageAfterPrevious(view, cur) ELSE cur

\* C22 as stated: from any valid page, "previous" then "next", and "next"
\* then "previous", lead back to the original page and row window.
C22_AsStated ==
    (PreviewShown /\ currentPage \in 1..Max(1, TotalPages(page, PreviewRows))) =>
        /\ PushNext(page, PreviewRows, PushPrevious(page, currentPage)) = currentPage
        /\ PushPrevious(page, PushNext(page, PreviewRows, currentPage)) = currentPage

\* A step of the preview's Next or Previous control.
NextStep == wfLast' = Event("next", "") /\ currentPage' # currentPage
PreviousStep == wfLast' = Event("previous", "") /\ currentPage' # currentPage

\* C22 (amended): when the first control pushed is enabled, the round trip
\* returns to the original page and row window: after every Next step
\* Previous is enabled and leads back to the page and rows left, and after
\* every Previous step Next is enabled and leads back.
C22_RoundTripWhenEnabled ==
    [][/\ NextStep =>
             /\ HasPrevious(page, currentPage')
             /\ PageAfterPrevious(page, currentPage') = currentPage
             /\ CurrentData(page, PreviewRows', PageAfterPrevious(page, currentPage'))
                   = CurrentData(page, PreviewRows, currentPage)
       /\ PreviousStep =>
             /\ HasNext(page, PreviewRows, currentPage')
             /\ PageAfterNext(page, PreviewRows, currentPage') = currentPage
             /\ CurrentData(page, PreviewRows',
                            PageAfterNext(page, PreviewRows, currentPage'))
                   = CurrentData(page, PreviewRows, currentPage)]_vars

\* Back on page 2 of 3 by Previous, in CSVPreviewTable and in UploadCSVPublic.
C22_Witness ==
    /\ wfLast = Event("previous", "")
    /\ page \in {"UploadPage", "UploadCSVPublic"}
    /\ Len(PreviewRows) = 25
    /\ currentPage = 2

\* C23 as stated: in every preview table a cell shows the dash exactly when
\* the row has no value (missing, undefined or null) for the column and the
\* value's text otherwise, 0, false and "" included; "undefined" and "null"
\* are never shown; and the Shopify and the admin table show the same text for
\* the same row and column.
C23_AsStated ==
    PreviewShown =>
        \A i \in 1..Len(CurrentData(page, PreviewRows, currentPage)) :
            LET row == CurrentData(page, PreviewRows, currentPage)[i]
                v == Prop(row, "title")
            IN  /\ CellText(page, row, "title") = "-" <=> v \in {Undefined, JNull}
                /\ v \notin {Undefined, JNull} => CellText(page, row, "title") = JsString(v)
                /\ CellText(page, row, "title") \notin {"undefined", "null"}
                /\ CellText("Index", row, "title") = CellText("CSVPreviewTable", row, "title")

\* The tolerant union of the claim over an upload result d: the first key
\* present, else empty.
UnionOf(d, first, second) ==
    IF d.t # "obj" THEN JArr(<<>>)
    ELSE IF first \in DOMAIN d.o THEN d.o[first]
    ELSE IF second \in DOMAIN d.o THEN d.o[second]
    ELSE JArr(<<>>)

\* C24 as stated: in every variant that shows a preview the rows are those
\* of `products`, else of `data_preview`, else none; the column names those of
\* `columns`, else of `column_names`, else none; nothing throws; and the
\* table with its "#" column is rendered.
C24_AsStated ==
    /\ (page \in ShopifyViews /\ HasData) =>
          /\ JArr(AllProducts) = UnionOf(CsvDataOf(persistentUploadData),
                                        "products", "data_preview")
          /\ ColumnNamesOf(CsvDataOf(persistentUploadData))
                = UnionOf(CsvDataOf(persistentUploadData), "columns", "column_names")
    /\ (page = "UploadPage" /\ adData # JNull) =>
          /\ ~TableThrows
          /\ TableRendered
          /\ TableProducts = UnionOf(adData, "products", "data_preview")
          /\ TableColumns = UnionOf(adData, "columns", "column_names")

\* C25 as stated: once the push action has returned, with a success or with
\* an error, isProcessing becomes false again and the push controls are
\* enabled again.
C25_AsStated ==
    (page \in ShopifyViews /\ wfLast = Event("return", "push"))
        ~> (page \in ShopifyViews =>
                /\ ~isProcessing
                /\ \A control \in PushControls(page) : ~PushControlDisabled(page, control))

\* C26 as stated: in the admin upload page isPushing is true whenever a
\* request to the webhook proxy is in flight, and at most one is in flight.
C26_AsStated ==
    page = "UploadPage" =>
        /\ pushRequests # <<>> => isPushing
        /\ Len(pushRequests) <= 1

\* Steps of the admin flow: FileUpload's request is answered; a push puts a
\* request to the webhook proxy in flight.
UploadSettlesStep ==
    /\ page = "UploadPage" /\ page' = "UploadPage"
    /\ uploadRequest # NoRequest /\ uploadRequest' = NoRequest
PushRequestStep ==
    /\ page = "UploadPage"
    /\ Len(pushRequests') = Len(pushRequests) + 1

\* C28: the file a push forwards is the file whose upload produced the
\* preview shown: the stored data changes only when an upload is answered (or
\* to null), it then carries the file that request sent, whatever is selected
\* by then, and a push sends the file of the stored data; a push that finds no
\* data or no file only alerts.
C28_PushedFileIsUploadedFile ==
    [][/\ adData' # adData => (UploadSettlesStep \/ adData' = JNull)
       /\ (UploadSettlesStep /\ adData' # adData) =>
             Prop(adData', "file") = uploadRequest
       /\ PushRequestStep =>
             /\ adData' = adData
             /\ Truthy(Prop(adData, "file"))
             /\ pushRequests' = Append(pushRequests, Prop(adData, "file"))
       /\ (page = "UploadPage" /\ wfLast' = Event("alert", "No file data found.")) =>
             UNCHANGED <<adData, isPushing, showLogs, pushRequests, pushTimers>>]_vars

\* A push went out with the uploaded file although another file had been
\* selected while the upload was in flight.
C28_Witness ==
    /\ page = "UploadPage"
    /\ wfLast = Event("push", "")
    /\ pushRequests = <<Prop(adData, "file")>>
    /\ Truthy(wfFile)
    /\ wfFile # Prop(adData, "file")

(***************************************************************************)
(* Claims about the price-logs page (checked under PriceLogsSpec)          *)
(***************************************************************************)
\* A fetchLogs call is answered.
FetchSettlesStep == plMounted /\ Len(plFetches') < Len(plFetches)

\* C27 as stated: in the price-logs page the response to an older request
\* never overwrites the rows and total set by the response to a newer one,
\* loading is true whenever a fetch is in flight, and a failed fetch leaves
\* rows and total unchanged.
C27_AsStated ==
    /\ [](plMounted /\ plFetches # <<>> => plLoading)
    /\ [][/\ (FetchSettlesStep /\ plLast' = Event("settled", "stale")) =>
                UNCHANGED <<plLogs, plTotal>>
          /\ (FetchSettlesStep /\ plLast' = Event("settled", "failed")) =>
                UNCHANGED <<plLogs, plTotal>>]_vars

(***************************************************************************)
(* Claims about the route actions (checked under RouteSpec)                *)
(***************************************************************************)
\* The action returned this result for a form it had read.
Returned(result) == raPc' = "returned" /\ raForm # NotForm /\ raResult' = result

\* The calls of the action are made as the claim says: uploadCSV only for the
\* action type "upload" with a file that is a File of at least one byte,
\* pushToShopify only for the action type "push".
CallsAsClaimed ==
    \A i \in 1..Len(raCalls') :
       /\ raCalls'[i].fn = "uploadCSV" =>
             /\ raForm'.actionType = "upload"
             /\ raCalls'[i].file.t = "file"
             /\ raCalls'[i].file.size > 0
       /\ raCalls'[i].fn = "pushToShopify" => raForm'.actionType = "push"

\* C30 as stated: once the form is read the action never throws; it calls
\* uploadCSV only for "upload" with a present non-empty file and pushToShopify
\* only for "push"; a missing or empty file yields the upload-tagged error and
\* no gateway call; any other action type yields "Invalid action"; a gateway
\* call that throws yields a result of status "error" with the exception's
\* message; and Index makes no gateway call before authenticate.admin has
\* succeeded.
C30_AsStated ==
    [][/\ raPc' = "thrown" => raPc = "authenticating"
       /\ CallsAsClaimed
       /\ (/\ raPc' = "returned" /\ raForm # NotForm
           /\ raForm.actionType = "upload"
           /\ raForm.file = JNull \/ raForm.file = LocalFile("empty.csv", 0)) =>
             /\ Returned(JObj([action |-> JStr("upload"), status |-> JStr("error"),
                               message |-> JStr("Please select a valid CSV file")]))
             /\ raCalls' = <<>>
       /\ (/\ raPc' = "returned" /\ raForm # NotForm
           /\ raForm.actionType \notin {"upload", "push"}) =>
             /\ Returned(JObj([status |-> JStr("error"),
                               message |-> JStr("Invalid action")]))
             /\ raCalls' = <<>>
       /\ (raPc' = "returned" /\ raOutcome'.kind = "rejected") =>
             Returned(JObj([status |-> JStr("error"),
                            message |-> JStr(raOutcome'.message)]))
       /\ (raView' = "Index" /\ raCalls' # <<>>) => raAuth']_vars

=============================================================================
